---- MODULE Spec2Model ----
(***************************************************************************)
(* Staged monthly-data entry of the Kerala Court Data server               *)
(* (src/server.py, src/validators.py, src/db.py).                          *)
(*                                                                         *)
(* The server is one asyncio event loop: the code of a tool handler runs   *)
(* without interruption between two awaits, and every await on the         *)
(* database lets the other in-flight handlers run.  A database statement   *)
(* takes effect at some moment between the await being issued and the      *)
(* handler being resumed.  The model therefore has, for every await on a   *)
(* table the workflow writes, one action for the statement taking effect   *)
(* in the database and one for the handler resuming and running up to its  *)
(* next await or its return.  The courts table is never written by the     *)
(* workflow, so the moment get_court_by_name reads it cannot be observed   *)
(* and that read is part of the action that resumes the handler.           *)
(***************************************************************************)
EXTENDS Integers, FiniteSets, Sequences, TLC

\* ------------------------------------------------------------------ bounds

\* Largest count a caller passes for a single numeric argument.
MaxCount == 1

\* Number of tool calls that can be in flight at the same time.
MaxInFlight == 2

\* Largest number of cases spread over the age buckets of one validator call.
MaxCases == 2

\* Largest number of rows with one key the table is followed to.
MaxRows == 2

Vals == 0..MaxCount
Slots == 1..MaxInFlight

\* ----------------------------------------------------- values and records

\* Python's None for a dict-valued local (a court row, a record).
None == [none |-> TRUE]

\* The empty dict, and the table without rows.
EmptyDict == [x \in {} |-> None]

\* {**a, **b} and a.update(b): the keys of both, b's value where both have one.
Merge(a, b) ==
    [f \in (DOMAIN a) \cup (DOMAIN b) |-> IF f \in DOMAIN b THEN b[f] ELSE a[f]]

\* del d[k] for a key that is present.
Remove(d, k) == [x \in (DOMAIN d) \ {k} |-> d[x]]

\* d[k] = v on a dict.
Put(d, k, v) == [x \in (DOMAIN d) \cup {k} |-> IF x = k THEN v ELSE d[x]]

\* ------------------------------------------------------- Python's floats

\* The numeric arguments of the tools are Python floats (server.py:130-135,
\* 205-218, 295-302): IEEE 754 binary64, 53 significant bits, every sum and
\* difference rounded to the nearest float, ties to the even significand.
\* A float that is a whole number is kept as a TLA+ integer; sums and
\* differences of such floats are exact far beyond the counts used here.
\* Any other float is [neg, mag] with mag = <<h, m, l>>, three digits in base
\* 2^20, its absolute value being (h * 2^40 + m * 2^20 + l) / 2^56: every
\* float that is a multiple of 2^-56 and less than 16.
Limb == 2^20

\* The whole numbers kept as integers, as TLC writes them; Whole(x) tells an
\* integer from a [neg, mag] record without comparing one with the other.
WholeNumerals == {ToString(n) : n \in -(2^10)..(2^10)}

Whole(x) == ToString(x) \in WholeNumerals

\* The float of the literal 0.2 (0x1.999999999999ap-3), and 0.5.
Fifth == [neg |-> FALSE, mag |-> <<13107, 209715, 209716>>]
Half == [neg |-> FALSE, mag |-> <<32768, 0, 0>>]

\* A float as sign and magnitude, and back; zero and the whole numbers have
\* one form only.
Fixed(x) ==
    IF Whole(x)
    THEN [neg |-> x < 0, mag |-> <<(IF x < 0 THEN -x ELSE x) * 2^16, 0, 0>>]
    ELSE x

Unfixed(f) ==
    IF f.mag[2] = 0 /\ f.mag[3] = 0 /\ f.mag[1] % 2^16 = 0
    THEN (IF f.neg THEN -1 ELSE 1) * (f.mag[1] \div 2^16)
    ELSE f

MagAdd(a, b) ==
    LET l == a[3] + b[3]
        m == a[2] + b[2] + (l \div Limb)
        h == a[1] + b[1] + (m \div Limb)
    IN  <<h, m % Limb, l % Limb>>

MagLess(a, b) ==
    \/ a[1] < b[1]
    \/ a[1] = b[1] /\ a[2] < b[2]
    \/ a[1] = b[1] /\ a[2] = b[2] /\ a[3] < b[3]

\* a - b for b not greater than a.
MagSub(a, b) ==
    LET l == a[3] - b[3]
        lb == IF l < 0 THEN 1 ELSE 0
        m == a[2] - b[2] - lb
        mb == IF m < 0 THEN 1 ELSE 0
    IN  <<a[1] - b[1] - mb, m + mb * Limb, l + lb * Limb>>

RECURSIVE BitLength(_)
BitLength(n) == IF n = 0 THEN 0 ELSE 1 + BitLength(n \div 2)

\* A magnitude rounded to 53 significant bits, ties to even.
RoundMag(a) ==
    LET drop == 40 + BitLength(a[1]) - 53
    IN  IF a[1] = 0 \/ drop <= 0 THEN a
        ELSE LET unit == 2^drop
                 rest == a[3] % unit
                 down == <<a[1], a[2], a[3] - rest>>
                 odd == (a[3] \div unit) % 2 = 1
             IN  IF 2 * rest > unit \/ (2 * rest = unit /\ odd)
                 THEN MagAdd(down, <<0, 0, unit>>)
                 ELSE down

\* The sum of two floats as a real number, before any rounding.
RealSum(x, y) ==
    LET a == Fixed(x)
        b == Fixed(y)
    IN  IF a.neg = b.neg THEN [neg |-> a.neg, mag |-> MagAdd(a.mag, b.mag)]
        ELSE IF MagLess(a.mag, b.mag)
        THEN [neg |-> b.neg, mag |-> MagSub(b.mag, a.mag)]
        ELSE [neg |-> a.neg, mag |-> MagSub(a.mag, b.mag)]

FloatNeg(x) == IF Whole(x) THEN -x ELSE [x EXCEPT !.neg = ~@]

\* x + y and x - y on floats.
FloatAdd(x, y) ==
    IF Whole(x) /\ Whole(y) THEN x + y
    ELSE LET sum == RealSum(x, y)
         IN  Unfixed([sum EXCEPT !.mag = RoundMag(@)])

FloatSub(x, y) == FloatAdd(x, FloatNeg(y))

\* x != y and x > y on floats.
FloatNe(x, y) ==
    IF Whole(x) /\ Whole(y) THEN x # y
    ELSE IF Whole(x) \/ Whole(y) THEN TRUE
    ELSE x # y

FloatGt(x, y) ==
    IF Whole(x) /\ Whole(y) THEN x > y
    ELSE LET a == Fixed(x)
             b == Fixed(y)
         IN  IF a.neg # b.neg THEN b.neg
             ELSE IF a.neg THEN MagLess(a.mag, b.mag)
             ELSE MagLess(b.mag, a.mag)

\* A validator's normal return, and the ValidationError it raises.
Ok(v) == [ok |-> TRUE, value |-> v]
Raise(kind, field) == [ok |-> FALSE, kind |-> kind, field |-> field]

\* ------------------------------------------------------------- validators

\* validate_month_year accepting every period.
validate_month_year_Unchecked(month, year) == Ok(TRUE)

\* validate_month_year without its check of the year.
validate_month_year_MonthOnly(month, year) ==
    IF ~(1 <= month /\ month <= 12) THEN Raise("RangeError", "month")
    ELSE Ok(TRUE)

validate_month_year(month, year) ==
    IF ~(1 <= month /\ month <= 12) THEN Raise("RangeError", "month")
    ELSE IF ~(2020 <= year /\ year <= 2030) THEN Raise("RangeError", "year")
    ELSE Ok(TRUE)

\* validate_basic_metrics leaving the new cases out of the pending counts.
validate_basic_metrics_PendingWithoutNew(balance_rape, balance_pocso, new_rape, new_pocso, disposed_rape, disposed_pocso) ==
    LET pending_rape == FloatSub(balance_rape, disposed_rape)
        pending_pocso == FloatSub(balance_pocso, disposed_pocso)
        balance_total == FloatAdd(balance_rape, balance_pocso)
        new_total == FloatAdd(new_rape, new_pocso)
        disposed_total == FloatAdd(disposed_rape, disposed_pocso)
        pending_total == FloatAdd(pending_rape, pending_pocso)
    IN  Ok([balance_rape |-> balance_rape,
            balance_pocso |-> balance_pocso,
            balance_total |-> balance_total,
            new_rape |-> new_rape,
            new_pocso |-> new_pocso,
            new_total |-> new_total,
            disposed_rape |-> disposed_rape,
            disposed_pocso |-> disposed_pocso,
            disposed_total |-> disposed_total,
            pending_rape |-> pending_rape,
            pending_pocso |-> pending_pocso,
            pending_total |-> pending_total])

validate_basic_metrics(balance_rape, balance_pocso, new_rape, new_pocso, disposed_rape, disposed_pocso) ==
    LET pending_rape == FloatSub(FloatAdd(balance_rape, new_rape), disposed_rape)
        pending_pocso == FloatSub(FloatAdd(balance_pocso, new_pocso), disposed_pocso)
        balance_total == FloatAdd(balance_rape, balance_pocso)
        new_total == FloatAdd(new_rape, new_pocso)
        disposed_total == FloatAdd(disposed_rape, disposed_pocso)
        pending_total == FloatAdd(pending_rape, pending_pocso)
    IN  IF FloatNe(pending_total,
                   FloatSub(FloatAdd(balance_total, new_total), disposed_total))
        THEN Raise("InvariantViolation", "pending_total")
        ELSE Ok([balance_rape |-> balance_rape,
                 balance_pocso |-> balance_pocso,
                 balance_total |-> balance_total,
                 new_rape |-> new_rape,
                 new_pocso |-> new_pocso,
                 new_total |-> new_total,
                 disposed_rape |-> disposed_rape,
                 disposed_pocso |-> disposed_pocso,
                 disposed_total |-> disposed_total,
                 pending_rape |-> pending_rape,
                 pending_pocso |-> pending_pocso,
                 pending_total |-> pending_total])

\* validate_age_breakdowns without its comparison of the first category's
\* pendency buckets against pending_rape.
validate_age_breakdowns_NoPendencyCheck(pending_rape, pending_pocso, disposed_rape, disposed_pocso, b) ==
    LET total_pendency_rape ==
            FloatAdd(FloatAdd(FloatAdd(b.pending_less_2m_rape, b.pending_2_12m_rape),
                              b.pending_12m_5y_rape), b.pending_beyond_5y_rape)
        total_pendency_pocso ==
            FloatAdd(FloatAdd(FloatAdd(b.pending_less_2m_pocso, b.pending_2_12m_pocso),
                              b.pending_12m_5y_pocso), b.pending_beyond_5y_pocso)
        total_disposal_rape ==
            FloatAdd(FloatAdd(b.disposal_within_2m_rape, b.disposal_2_12m_rape),
                     b.disposal_beyond_12m_rape)
        total_disposal_pocso ==
            FloatAdd(FloatAdd(b.disposal_within_2m_pocso, b.disposal_2_12m_pocso),
                     b.disposal_beyond_12m_pocso)
    IN  IF FloatNe(total_pendency_pocso, pending_pocso)
        THEN Raise("SumMismatch", "pending_pocso")
        ELSE IF FloatNe(total_disposal_rape, disposed_rape)
        THEN Raise("SumMismatch", "disposed_rape")
        ELSE IF FloatNe(total_disposal_pocso, disposed_pocso)
        THEN Raise("SumMismatch", "disposed_pocso")
        ELSE Ok(Merge(b, [total_pendency_rape |-> total_pendency_rape,
                          total_pendency_pocso |-> total_pendency_pocso,
                          total_disposal_rape |-> total_disposal_rape,
                          total_disposal_pocso |-> total_disposal_pocso]))

\* validate_age_breakdowns accepting buckets that sum to less than the
\* step-1 value.
validate_age_breakdowns_AtMost(pending_rape, pending_pocso, disposed_rape, disposed_pocso, b) ==
    LET total_pendency_rape ==
            FloatAdd(FloatAdd(FloatAdd(b.pending_less_2m_rape, b.pending_2_12m_rape),
                              b.pending_12m_5y_rape), b.pending_beyond_5y_rape)
        total_pendency_pocso ==
            FloatAdd(FloatAdd(FloatAdd(b.pending_less_2m_pocso, b.pending_2_12m_pocso),
                              b.pending_12m_5y_pocso), b.pending_beyond_5y_pocso)
        total_disposal_rape ==
            FloatAdd(FloatAdd(b.disposal_within_2m_rape, b.disposal_2_12m_rape),
                     b.disposal_beyond_12m_rape)
        total_disposal_pocso ==
            FloatAdd(FloatAdd(b.disposal_within_2m_pocso, b.disposal_2_12m_pocso),
                     b.disposal_beyond_12m_pocso)
    IN  IF FloatGt(total_pendency_rape, pending_rape)
        THEN Raise("SumMismatch", "pending_rape")
        ELSE IF FloatGt(total_pendency_pocso, pending_pocso)
        THEN Raise("SumMismatch", "pending_pocso")
        ELSE IF FloatGt(total_disposal_rape, disposed_rape)
        THEN Raise("SumMismatch", "disposed_rape")
        ELSE IF FloatGt(total_disposal_pocso, disposed_pocso)
        THEN Raise("SumMismatch", "disposed_pocso")
        ELSE Ok(Merge(b, [total_pendency_rape |-> total_pendency_rape,
                          total_pendency_pocso |-> total_pendency_pocso,
                          total_disposal_rape |-> total_disposal_rape,
                          total_disposal_pocso |-> total_disposal_pocso]))

\* b is the record of the fourteen bucket arguments of step 2.
validate_age_breakdowns(pending_rape, pending_pocso, disposed_rape, disposed_pocso, b) ==
    LET total_pendency_rape ==
            FloatAdd(FloatAdd(FloatAdd(b.pending_less_2m_rape, b.pending_2_12m_rape),
                              b.pending_12m_5y_rape), b.pending_beyond_5y_rape)
        total_pendency_pocso ==
            FloatAdd(FloatAdd(FloatAdd(b.pending_less_2m_pocso, b.pending_2_12m_pocso),
                              b.pending_12m_5y_pocso), b.pending_beyond_5y_pocso)
        total_disposal_rape ==
            FloatAdd(FloatAdd(b.disposal_within_2m_rape, b.disposal_2_12m_rape),
                     b.disposal_beyond_12m_rape)
        total_disposal_pocso ==
            FloatAdd(FloatAdd(b.disposal_within_2m_pocso, b.disposal_2_12m_pocso),
                     b.disposal_beyond_12m_pocso)
    IN  IF FloatNe(total_pendency_rape, pending_rape)
        THEN Raise("SumMismatch", "pending_rape")
        ELSE IF FloatNe(total_pendency_pocso, pending_pocso)
        THEN Raise("SumMismatch", "pending_pocso")
        ELSE IF FloatNe(total_disposal_rape, disposed_rape)
        THEN Raise("SumMismatch", "disposed_rape")
        ELSE IF FloatNe(total_disposal_pocso, disposed_pocso)
        THEN Raise("SumMismatch", "disposed_pocso")
        ELSE Ok([pending_less_2m_rape |-> b.pending_less_2m_rape,
                 pending_less_2m_pocso |-> b.pending_less_2m_pocso,
                 pending_2_12m_rape |-> b.pending_2_12m_rape,
                 pending_2_12m_pocso |-> b.pending_2_12m_pocso,
                 pending_12m_5y_rape |-> b.pending_12m_5y_rape,
                 pending_12m_5y_pocso |-> b.pending_12m_5y_pocso,
                 pending_beyond_5y_rape |-> b.pending_beyond_5y_rape,
                 pending_beyond_5y_pocso |-> b.pending_beyond_5y_pocso,
                 total_pendency_rape |-> total_pendency_rape,
                 total_pendency_pocso |-> total_pendency_pocso,
                 disposal_within_2m_rape |-> b.disposal_within_2m_rape,
                 disposal_within_2m_pocso |-> b.disposal_within_2m_pocso,
                 disposal_2_12m_rape |-> b.disposal_2_12m_rape,
                 disposal_2_12m_pocso |-> b.disposal_2_12m_pocso,
                 disposal_beyond_12m_rape |-> b.disposal_beyond_12m_rape,
                 disposal_beyond_12m_pocso |-> b.disposal_beyond_12m_pocso,
                 total_disposal_rape |-> total_disposal_rape,
                 total_disposal_pocso |-> total_disposal_pocso])

\* validate_additional_metrics refusing a subset field equal to its bound.
validate_additional_metrics_Strict(pending_rape, pending_pocso, disposed_rape, disposed_pocso, m) ==
    IF ~FloatGt(disposed_rape, m.contested_rape)
    THEN Raise("SubsetViolation", "contested_rape")
    ELSE IF ~FloatGt(disposed_pocso, m.contested_pocso)
    THEN Raise("SubsetViolation", "contested_pocso")
    ELSE IF ~FloatGt(disposed_rape, m.disposal_5y_rape)
    THEN Raise("SubsetViolation", "disposal_5y_rape")
    ELSE IF ~FloatGt(disposed_pocso, m.disposal_5y_pocso)
    THEN Raise("SubsetViolation", "disposal_5y_pocso")
    ELSE IF ~FloatGt(pending_rape, m.pending_over_5y_rape)
    THEN Raise("SubsetViolation", "pending_over_5y_rape")
    ELSE IF ~FloatGt(pending_pocso, m.pending_over_5y_pocso)
    THEN Raise("SubsetViolation", "pending_over_5y_pocso")
    ELSE Ok([contested_rape |-> m.contested_rape,
             contested_pocso |-> m.contested_pocso,
             contested_total |-> FloatAdd(m.contested_rape, m.contested_pocso),
             disposal_5y_rape |-> m.disposal_5y_rape,
             disposal_5y_pocso |-> m.disposal_5y_pocso,
             disposal_5y_total |-> FloatAdd(m.disposal_5y_rape, m.disposal_5y_pocso),
             pending_over_5y_rape |-> m.pending_over_5y_rape,
             pending_over_5y_pocso |-> m.pending_over_5y_pocso,
             pending_over_5y_total |-> FloatAdd(m.pending_over_5y_rape, m.pending_over_5y_pocso),
             convictions_rape |-> m.convictions_rape,
             convictions_pocso |-> m.convictions_pocso])

\* m is the record of the eight additional arguments of step 3.
validate_additional_metrics(pending_rape, pending_pocso, disposed_rape, disposed_pocso, m) ==
    IF FloatGt(m.contested_rape, disposed_rape)
    THEN Raise("SubsetViolation", "contested_rape")
    ELSE IF FloatGt(m.contested_pocso, disposed_pocso)
    THEN Raise("SubsetViolation", "contested_pocso")
    ELSE IF FloatGt(m.disposal_5y_rape, disposed_rape)
    THEN Raise("SubsetViolation", "disposal_5y_rape")
    ELSE IF FloatGt(m.disposal_5y_pocso, disposed_pocso)
    THEN Raise("SubsetViolation", "disposal_5y_pocso")
    ELSE IF FloatGt(m.pending_over_5y_rape, pending_rape)
    THEN Raise("SubsetViolation", "pending_over_5y_rape")
    ELSE IF FloatGt(m.pending_over_5y_pocso, pending_pocso)
    THEN Raise("SubsetViolation", "pending_over_5y_pocso")
    ELSE Ok([contested_rape |-> m.contested_rape,
             contested_pocso |-> m.contested_pocso,
             contested_total |-> FloatAdd(m.contested_rape, m.contested_pocso),
             disposal_5y_rape |-> m.disposal_5y_rape,
             disposal_5y_pocso |-> m.disposal_5y_pocso,
             disposal_5y_total |-> FloatAdd(m.disposal_5y_rape, m.disposal_5y_pocso),
             pending_over_5y_rape |-> m.pending_over_5y_rape,
             pending_over_5y_pocso |-> m.pending_over_5y_pocso,
             pending_over_5y_total |-> FloatAdd(m.pending_over_5y_rape, m.pending_over_5y_pocso),
             convictions_rape |-> m.convictions_rape,
             convictions_pocso |-> m.convictions_pocso])

\* --------------------------------------------------------------- database

\* The rows of the courts table (read-only for the workflow).
Courts ==
    {[id |-> 1, name |-> "FTSC Attingal", type |-> "FTSC",
      district_name |-> "Thiruvananthapuram"]}

\* SELECT ... FROM courts WHERE name = $1: the row, or None.
get_court_by_name(court_name) ==
    IF \E c \in Courts : c.name = court_name
    THEN CHOOSE c \in Courts : c.name = court_name
    ELSE None

\* The columns insert_court_monthly_data reads from its data argument.
DataColumns ==
    {"balance_rape", "balance_pocso", "balance_total",
     "new_rape", "new_pocso", "new_total",
     "contested_rape", "contested_pocso", "contested_total",
     "disposed_rape", "disposed_pocso", "disposed_total",
     "pending_rape", "pending_pocso", "pending_total",
     "disposal_5y_rape", "disposal_5y_pocso", "disposal_5y_total",
     "pending_over_5y_rape", "pending_over_5y_pocso", "pending_over_5y_total",
     "pending_less_2m_rape", "pending_less_2m_pocso",
     "pending_2_12m_rape", "pending_2_12m_pocso",
     "pending_12m_5y_rape", "pending_12m_5y_pocso",
     "pending_beyond_5y_rape", "pending_beyond_5y_pocso",
     "total_pendency_rape", "total_pendency_pocso",
     "disposal_within_2m_rape", "disposal_within_2m_pocso",
     "disposal_2_12m_rape", "disposal_2_12m_pocso",
     "disposal_beyond_12m_rape", "disposal_beyond_12m_pocso",
     "total_disposal_rape", "total_disposal_pocso",
     "convictions_rape", "convictions_pocso"}

\* The key of a court_monthly_data row: WHERE court_id = $1 AND month = $2 AND year = $3.
RowKey(court_id, month, year) == <<court_id, month, year>>

\* SELECT EXISTS(...) on a table.  A table is a function from the keys of its
\* rows to the rows with that key, a non-empty sequence in the order of
\* their insertion: the statements of db.py name no constraint, so the table
\* may hold several rows with one key.
check_existing_data(table, court_id, month, year) ==
    RowKey(court_id, month, year) \in DOMAIN table

\* The row INSERT INTO court_monthly_data writes: the three key arguments and
\* the forty-one columns read from data.
InsertedRow(court_id, month, year, data) ==
    [f \in DataColumns \cup {"court_id", "month", "year"} |->
        IF f = "court_id" THEN court_id
        ELSE IF f = "month" THEN month
        ELSE IF f = "year" THEN year
        ELSE data[f]]

\* The number of rows of the table with the key given.
RowsWith(table, court_id, month, year) ==
    IF RowKey(court_id, month, year) \in DOMAIN table
    THEN Len(table[RowKey(court_id, month, year)])
    ELSE 0

\* The insert a unique key on (court_id, month, year) rejects, where the
\* table was created with one; the table's schema is not part of the source.
UniqueKeyViolation(table, court_id, month, year) ==
    RowKey(court_id, month, year) \in DOMAIN table

\* An INSERT that reports success and writes no row.
insert_court_monthly_data_WritesNothing(table, court_id, month, year, data) == table

\* The table after insert_court_monthly_data's statement took effect.
insert_court_monthly_data(table, court_id, month, year, data) ==
    LET key == RowKey(court_id, month, year)
    IN  Put(table, key,
            Append(IF key \in DOMAIN table THEN table[key] ELSE <<>>,
                   InsertedRow(court_id, month, year, data)))

\* A DELETE that reports success and leaves the row.
delete_court_monthly_data_KeepsRow(table, court_id, month, year) == table

\* The table after DELETE ... WHERE court_id = $1 AND month = $2 AND year = $3.
delete_court_monthly_data(table, court_id, month, year) ==
    [k \in (DOMAIN table) \ {RowKey(court_id, month, year)} |-> table[k]]

\* ------------------------------------------------- the partial-data store

\* key = f"{court['id']}_{month}_{year}": one string per triple of integers.
StoreKey(court, month, year) == <<court.id, month, year>>

\* d.get('step1_complete') / d.get('step2_complete'): falsy when the key is absent.
Get(d, flag) == IF flag \in DOMAIN d THEN d[flag] ELSE FALSE

\* Step 1 updating a record that is already in the store instead of replacing it.
Step1Store_Merging(store, key, court, court_name, month, year, calculated) ==
    Put(store, key,
        Merge(IF key \in DOMAIN store THEN store[key] ELSE EmptyDict,
              Merge([court_id |-> court.id, court_name |-> court_name,
                     month |-> month, year |-> year],
                    Merge(calculated, [step1_complete |-> TRUE]))))

\* Step 1 keeping a record that is already in the store (first writer wins).
Step1Store_KeepFirst(store, key, court, court_name, month, year, calculated) ==
    IF key \in DOMAIN store
    THEN store
    ELSE Put(store, key,
             Merge([court_id |-> court.id, court_name |-> court_name,
                    month |-> month, year |-> year],
                   Merge(calculated, [step1_complete |-> TRUE])))

\* Step 1's assignment partial_data_store[key] = {...}.
Step1Store(store, key, court, court_name, month, year, calculated) ==
    Put(store, key,
        Merge([court_id |-> court.id, court_name |-> court_name,
               month |-> month, year |-> year],
              Merge(calculated, [step1_complete |-> TRUE])))

\* Step 2's precondition: the key is in the store with step1_complete.
Step1Done(store, key) ==
    key \in DOMAIN store /\ Get(store[key], "step1_complete")

\* Step 2's update of the stored record.
Step2Update(store, key, age_data) ==
    Put(store, key, Merge(Merge(store[key], age_data), [step2_complete |-> TRUE]))

\* Step 3 without its check of step2_complete.
Step2Done_Unchecked(store, key) == TRUE

\* Step 3's second precondition, on a record that is in the store.
Step2Done(store, key) == Get(store[key], "step2_complete")

\* complete_data = {**partial_data, **additional}.
CompleteData(partial_data, additional) == Merge(partial_data, additional)

\* Step 3 without its clean-up of the partial record.
Discard_Nothing(store, key) == store

\* Step 3's clean-up emptying the whole store.
Discard_Everything(store, key) == EmptyDict

\* del partial_data_store[key]; raises KeyError when the key is gone.
Discard(store, key) == Remove(store, key)

\* --------------------------------------------------------- callers' inputs

CourtNames == {"FTSC Attingal", "No Such Court"}
Months == {1, 13}
Years == {2025}

\* The periods step 1 is called with: those of the other operations, and a
\* month below the range, a year below and a year above it.
Step1Periods == (Months \X Years) \cup {<<0, 2025>>, <<1, 2019>>, <<1, 2031>>}

\* Step 1: the opening balance of the first category varies; the other five
\* counts are fixed, so that pending_rape = balance_rape, pending_pocso = 0
\* and disposed_rape = disposed_pocso = 1.
Step1Inputs ==
    [balance_rape : Vals, balance_pocso : {1}, new_rape : {1}, new_pocso : {0},
     disposed_rape : {1}, disposed_pocso : {1}]

\* Step 1 with a fractional count: 0.2 new cases in the second category.
Step1Fractional ==
    [balance_rape |-> 0, balance_pocso |-> 1, new_rape |-> 1, new_pocso |-> Fifth,
     disposed_rape |-> 1, disposed_pocso |-> 1]

Step2Zero ==
    [pending_less_2m_rape |-> 0, pending_less_2m_pocso |-> 0,
     pending_2_12m_rape |-> 0, pending_2_12m_pocso |-> 0,
     pending_12m_5y_rape |-> 0, pending_12m_5y_pocso |-> 0,
     pending_beyond_5y_rape |-> 0, pending_beyond_5y_pocso |-> 0,
     disposal_within_2m_rape |-> 0, disposal_within_2m_pocso |-> 0,
     disposal_2_12m_rape |-> 0, disposal_2_12m_pocso |-> 0,
     disposal_beyond_12m_rape |-> 0, disposal_beyond_12m_pocso |-> 0]

\* Bucket values that sum to the step-1 values when pending_rape = p; the one
\* disposed case of the first category is within 2 months (w = 1) or within
\* 2 to 12 months (w = 0).
Step2Matching(p, w) ==
    [Step2Zero EXCEPT !.pending_less_2m_rape = p,
                      !.disposal_within_2m_rape = w,
                      !.disposal_2_12m_rape = 1 - w,
                      !.disposal_beyond_12m_pocso = 1]

\* One bucket of each of the four sums, raised by one.
Step2Perturbed ==
    {[Step2Matching(0, 1) EXCEPT ![f] = @ + 1] :
        f \in {"pending_beyond_5y_rape", "pending_2_12m_pocso",
               "disposal_beyond_12m_rape", "disposal_within_2m_pocso"}}

Step2Inputs ==
    {Step2Matching(p, 1) : p \in Vals} \cup {Step2Matching(0, 0)} \cup Step2Perturbed

Step3Zero ==
    [contested_rape |-> 0, contested_pocso |-> 0,
     disposal_5y_rape |-> 0, disposal_5y_pocso |-> 0,
     pending_over_5y_rape |-> 0, pending_over_5y_pocso |-> 0,
     convictions_rape |-> 0, convictions_pocso |-> 0]

\* Every subset field equal to its bound when pending_rape = p.
Step3AtBound(p) ==
    [Step3Zero EXCEPT !.contested_rape = 1, !.contested_pocso = 1,
                      !.disposal_5y_rape = 1, !.disposal_5y_pocso = 1,
                      !.pending_over_5y_rape = p,
                      !.convictions_rape = 1]

\* One subset field raised by one above its bound.
Step3Perturbed ==
    {[Step3AtBound(0) EXCEPT ![f] = @ + 1] :
        f \in {"contested_rape", "contested_pocso", "disposal_5y_rape",
               "disposal_5y_pocso", "pending_over_5y_rape", "pending_over_5y_pocso"}}

Step3Inputs == {Step3AtBound(p) : p \in Vals} \cup Step3Perturbed

\* The numeric arguments tried with a target: all of them for a court that
\* exists and a period in range, one vector for a target whose call returns
\* before any handler reads them.
ArgsFor(court_name, month, year, inputs) ==
    IF get_court_by_name(court_name) # None /\ validate_month_year(month, year).ok
    THEN inputs
    ELSE {CHOOSE a \in inputs : TRUE}

\* ------------------------------------------------------------------ state

VARIABLES
    partial_data_store,   \* server.py's dict: store key -> partial record
    court_monthly_data,   \* the table: row key -> the committed rows with that key
    unique_key,           \* the table was created with a unique key on
                          \* (court_id, month, year); its schema is not in the source
    call                  \* per slot, the tool call in flight there and its locals

vars == <<partial_data_store, court_monthly_data, unique_key, call>>

Idle == [pc |-> "idle"]

\* A handler suspended at an await, with the locals it reads after resuming.
Frame(op, court_name, month, year, args) ==
    [pc |-> "get_court", op |-> op, court_name |-> court_name, month |-> month,
     year |-> year, args |-> args, court |-> None, exists |-> FALSE,
     exc |-> "", complete_data |-> None]

\* The value a handler returned: the failure kind or "Success", and the
\* derived values the response text reports.
Returned(c, result, payload) ==
    [pc |-> "done", op |-> c.op, court_name |-> c.court_name, month |-> c.month,
     year |-> c.year, result |-> result, payload |-> payload]

Init ==
    /\ partial_data_store = EmptyDict
    /\ court_monthly_data = EmptyDict
    /\ unique_key \in BOOLEAN
    /\ call = [s \in Slots |-> Idle]

\* A call is accepted in the lowest free slot.
Free(s) ==
    /\ call[s].pc = "idle"
    /\ \A t \in Slots : t < s => call[t].pc # "idle"

At(s, op, pc) == call[s].pc = pc /\ call[s].op = op

Finish(s, result, payload) ==
    call' = [call EXCEPT ![s] = Returned(call[s], result, payload)]

\* A database statement of the handler in slot s raises instead of returning.
StorageRaises(s) ==
    /\ call' = [call EXCEPT ![s] = Returned(call[s], "StorageFailure", None)]
    /\ UNCHANGED <<partial_data_store, court_monthly_data, unique_key>>

\* ----------------------------------------------- database statements

\* check_existing_data's SELECT takes effect.
DbCheckExisting(s) ==
    /\ call[s].pc = "check_existing"
    /\ \/ call' = [call EXCEPT ![s].pc = "checked",
                               ![s].exists = check_existing_data(
                                   court_monthly_data, call[s].court.id,
                                   call[s].month, call[s].year)]
       \/ call' = [call EXCEPT ![s].pc = "checked", ![s].exc = "StorageFailure"]
    /\ UNCHANGED <<partial_data_store, court_monthly_data, unique_key>>

\* insert_court_monthly_data's INSERT takes effect, or raises.  A table with
\* the unique key rejects a row whose key it already holds; a table without
\* it adds the row to the rows already there with that key.  The statement
\* is followed while the key has fewer than MaxRows rows.
DbInsert(s) ==
    /\ call[s].pc = "insert"
    /\ RowsWith(court_monthly_data, call[s].court.id, call[s].month, call[s].year) < MaxRows
    /\ LET c == call[s]
           rejected == unique_key /\ UniqueKeyViolation(court_monthly_data, c.court.id,
                                                        c.month, c.year)
       IN
       \/ /\ rejected
          /\ call' = [call EXCEPT ![s].pc = "inserted", ![s].exc = "UniqueViolation",
                                   ![s].complete_data = None]
          /\ UNCHANGED court_monthly_data
       \/ /\ ~rejected
          /\ court_monthly_data' = insert_court_monthly_data(
                 court_monthly_data, c.court.id, c.month, c.year, c.complete_data)
          /\ call' = [call EXCEPT ![s].pc = "inserted"]
       \/ /\ call' = [call EXCEPT ![s].pc = "inserted", ![s].exc = "StorageFailure",
                                   ![s].complete_data = None]
          /\ UNCHANGED court_monthly_data
    /\ UNCHANGED <<partial_data_store, unique_key>>

\* delete_court_monthly_data's DELETE takes effect, or raises.
DbDelete(s) ==
    /\ call[s].pc = "delete"
    /\ \/ /\ court_monthly_data' = delete_court_monthly_data(
                 court_monthly_data, call[s].court.id, call[s].month, call[s].year)
          /\ call' = [call EXCEPT ![s].pc = "deleted"]
       \/ /\ call' = [call EXCEPT ![s].pc = "deleted", ![s].exc = "StorageFailure"]
          /\ UNCHANGED court_monthly_data
    /\ UNCHANGED <<partial_data_store, unique_key>>

\* ------------------------------------------------------- check_data_exists

ExistsCall(s) ==
    /\ Free(s)
    /\ \E n \in CourtNames, m \in Months, y \in Years :
          call' = [call EXCEPT ![s] = Frame("check_data_exists", n, m, y, None)]
    /\ UNCHANGED <<partial_data_store, court_monthly_data, unique_key>>

ExistsGotCourt(s) ==
    /\ At(s, "check_data_exists", "get_court")
    /\ \/ StorageRaises(s)
       \/ LET court == get_court_by_name(call[s].court_name) IN
          /\ IF court = None
             THEN Finish(s, "EntityNotFound", None)
             ELSE call' = [call EXCEPT ![s].pc = "check_existing", ![s].court = court]
          /\ UNCHANGED <<partial_data_store, court_monthly_data, unique_key>>

ExistsChecked(s) ==
    /\ At(s, "check_data_exists", "checked")
    /\ IF call[s].exc # "" THEN Finish(s, "StorageFailure", None)
       ELSE IF call[s].exists THEN Finish(s, "Exists", None)
       ELSE Finish(s, "NoData", None)
    /\ UNCHANGED <<partial_data_store, court_monthly_data, unique_key>>

check_data_exists(s) == ExistsCall(s) \/ ExistsGotCourt(s) \/ ExistsChecked(s)

\* ----------------------------------------------- insert_step1_basic_metrics

\* The call arrives: validate_month_year runs before the first await.
Step1Call(s) ==
    /\ Free(s)
    /\ LET Arrives(n, m, y, a) ==
               LET checked == validate_month_year(m, y)
                   frame == Frame("insert_step1_basic_metrics", n, m, y, a)
               IN  IF checked.ok
                   THEN call' = [call EXCEPT ![s] = frame]
                   ELSE call' = [call EXCEPT ![s] = Returned(frame, checked.kind, None)]
       IN  \E n \in CourtNames, p \in Step1Periods :
              \/ \E a \in ArgsFor(n, p[1], p[2], Step1Inputs) : Arrives(n, p[1], p[2], a)
              \/ /\ ArgsFor(n, p[1], p[2], Step1Inputs) = Step1Inputs
                 /\ Arrives(n, p[1], p[2], Step1Fractional)
    /\ UNCHANGED <<partial_data_store, court_monthly_data, unique_key>>

\* get_court_by_name returned: the court is looked up, check_existing_data is awaited.
Step1GotCourt(s) ==
    /\ At(s, "insert_step1_basic_metrics", "get_court")
    /\ \/ StorageRaises(s)
       \/ LET court == get_court_by_name(call[s].court_name) IN
          /\ IF court = None
             THEN Finish(s, "EntityNotFound", None)
             ELSE call' = [call EXCEPT ![s].pc = "check_existing", ![s].court = court]
          /\ UNCHANGED <<partial_data_store, court_monthly_data, unique_key>>

\* What step 1 reports of the calculated values.
Step1Payload(calculated) ==
    [pending_rape |-> calculated.pending_rape,
     pending_pocso |-> calculated.pending_pocso,
     pending_total |-> calculated.pending_total,
     balance_total |-> calculated.balance_total,
     new_total |-> calculated.new_total,
     disposed_total |-> calculated.disposed_total]

\* Step 1 dropping the partial record of a key it finds committed.
Step1Checked_DropOnDuplicate(s) ==
    /\ At(s, "insert_step1_basic_metrics", "checked")
    /\ LET c == call[s]
           a == c.args
           calculated == validate_basic_metrics(
               a.balance_rape, a.balance_pocso, a.new_rape, a.new_pocso,
               a.disposed_rape, a.disposed_pocso)
           key == StoreKey(c.court, c.month, c.year)
       IN  IF c.exc # ""
           THEN Finish(s, "StorageFailure", None) /\ UNCHANGED partial_data_store
           ELSE IF c.exists
           THEN /\ Finish(s, "DuplicateEntry", None)
                /\ partial_data_store' = Remove(partial_data_store, key)
           ELSE IF ~calculated.ok
           THEN Finish(s, calculated.kind, None) /\ UNCHANGED partial_data_store
           ELSE /\ partial_data_store' = Step1Store(
                       partial_data_store, key, c.court, c.court_name,
                       c.month, c.year, calculated.value)
                /\ Finish(s, "Success", Step1Payload(calculated.value))
    /\ UNCHANGED <<court_monthly_data, unique_key>>

\* check_existing_data returned: duplicate check, calculation, store write, return.
Step1Checked(s) ==
    /\ At(s, "insert_step1_basic_metrics", "checked")
    /\ LET c == call[s]
           a == c.args
           calculated == validate_basic_metrics(
               a.balance_rape, a.balance_pocso, a.new_rape, a.new_pocso,
               a.disposed_rape, a.disposed_pocso)
           key == StoreKey(c.court, c.month, c.year)
       IN  IF c.exc # ""
           THEN Finish(s, "StorageFailure", None) /\ UNCHANGED partial_data_store
           ELSE IF c.exists
           THEN Finish(s, "DuplicateEntry", None) /\ UNCHANGED partial_data_store
           ELSE IF ~calculated.ok
           THEN Finish(s, calculated.kind, None) /\ UNCHANGED partial_data_store
           ELSE /\ partial_data_store' = Step1Store(
                       partial_data_store, key, c.court, c.court_name,
                       c.month, c.year, calculated.value)
                /\ Finish(s, "Success", Step1Payload(calculated.value))
    /\ UNCHANGED <<court_monthly_data, unique_key>>

insert_step1_basic_metrics(s) == Step1Call(s) \/ Step1GotCourt(s) \/ Step1Checked(s)

\* ---------------------------------------------- insert_step2_age_breakdowns

Step2Call(s) ==
    /\ Free(s)
    /\ \E n \in CourtNames, m \in Months, y \in Years :
       \E a \in ArgsFor(n, m, y, Step2Inputs) :
          call' = [call EXCEPT ![s] = Frame("insert_step2_age_breakdowns", n, m, y, a)]
    /\ UNCHANGED <<partial_data_store, court_monthly_data, unique_key>>

\* What step 2 reports of the validated sums.
Step2Payload(age_data) ==
    [total_pendency_rape |-> age_data.total_pendency_rape,
     total_pendency_pocso |-> age_data.total_pendency_pocso,
     total_disposal_rape |-> age_data.total_disposal_rape,
     total_disposal_pocso |-> age_data.total_disposal_pocso]

\* Step 2 writing its arguments into the stored record before validating them.
Step2GotCourt_UpdateFirst(s) ==
    /\ At(s, "insert_step2_age_breakdowns", "get_court")
    /\ \/ StorageRaises(s)
       \/ LET c == call[s]
              court == get_court_by_name(c.court_name)
              key == StoreKey(court, c.month, c.year)
              partial_data == partial_data_store[key]
              age_data == validate_age_breakdowns(
                  partial_data.pending_rape, partial_data.pending_pocso,
                  partial_data.disposed_rape, partial_data.disposed_pocso, c.args)
          IN  /\ IF court = None
                 THEN Finish(s, "EntityNotFound", None) /\ UNCHANGED partial_data_store
                 ELSE IF ~Step1Done(partial_data_store, key)
                 THEN Finish(s, "StepOrderViolation", None) /\ UNCHANGED partial_data_store
                 ELSE /\ partial_data_store' =
                             Step2Update(partial_data_store, key, c.args)
                      /\ IF age_data.ok
                         THEN Finish(s, "Success", Step2Payload(age_data.value))
                         ELSE Finish(s, age_data.kind, None)
              /\ UNCHANGED <<court_monthly_data, unique_key>>

\* get_court_by_name returned: the rest of the handler runs without an await.
Step2GotCourt(s) ==
    /\ At(s, "insert_step2_age_breakdowns", "get_court")
    /\ \/ StorageRaises(s)
       \/ LET c == call[s]
              court == get_court_by_name(c.court_name)
              key == StoreKey(court, c.month, c.year)
              partial_data == partial_data_store[key]
              age_data == validate_age_breakdowns(
                  partial_data.pending_rape, partial_data.pending_pocso,
                  partial_data.disposed_rape, partial_data.disposed_pocso, c.args)
          IN  /\ IF court = None
                 THEN Finish(s, "EntityNotFound", None) /\ UNCHANGED partial_data_store
                 ELSE IF ~Step1Done(partial_data_store, key)
                 THEN Finish(s, "StepOrderViolation", None) /\ UNCHANGED partial_data_store
                 ELSE IF ~age_data.ok
                 THEN Finish(s, age_data.kind, None) /\ UNCHANGED partial_data_store
                 ELSE /\ partial_data_store' =
                             Step2Update(partial_data_store, key, age_data.value)
                      /\ Finish(s, "Success", Step2Payload(age_data.value))
              /\ UNCHANGED <<court_monthly_data, unique_key>>

insert_step2_age_breakdowns(s) == Step2Call(s) \/ Step2GotCourt(s)

\* ------------------------------------------ insert_step3_additional_metrics

Step3Call(s) ==
    /\ Free(s)
    /\ \E n \in CourtNames, m \in Months, y \in Years :
       \E a \in ArgsFor(n, m, y, Step3Inputs) :
          call' = [call EXCEPT ![s] =
                      Frame("insert_step3_additional_metrics", n, m, y, a)]
    /\ UNCHANGED <<partial_data_store, court_monthly_data, unique_key>>

\* Step 3 dropping the partial record when its validation fails.
Step3GotCourt_DropOnFailure(s) ==
    /\ At(s, "insert_step3_additional_metrics", "get_court")
    /\ \/ StorageRaises(s)
       \/ LET c == call[s]
              court == get_court_by_name(c.court_name)
              key == StoreKey(court, c.month, c.year)
              partial_data == partial_data_store[key]
              additional == validate_additional_metrics(
                  partial_data.pending_rape, partial_data.pending_pocso,
                  partial_data.disposed_rape, partial_data.disposed_pocso, c.args)
          IN  /\ IF court = None
                 THEN Finish(s, "EntityNotFound", None) /\ UNCHANGED partial_data_store
                 ELSE IF key \notin DOMAIN partial_data_store
                 THEN Finish(s, "StepOrderViolation", None) /\ UNCHANGED partial_data_store
                 ELSE IF ~Step2Done(partial_data_store, key)
                 THEN Finish(s, "StepOrderViolation", None) /\ UNCHANGED partial_data_store
                 ELSE IF ~additional.ok
                 THEN /\ Finish(s, additional.kind, None)
                      /\ partial_data_store' = Remove(partial_data_store, key)
                 ELSE /\ call' = [call EXCEPT
                            ![s].pc = "insert", ![s].court = court, ![s].args = None,
                            ![s].complete_data =
                                CompleteData(partial_data, additional.value)]
                      /\ UNCHANGED partial_data_store
              /\ UNCHANGED <<court_monthly_data, unique_key>>

\* get_court_by_name returned: step-order checks, validation, merge; the
\* insert is awaited with the merged record.  insert_court_monthly_data reads
\* its columns from data before it awaits the statement, so a record lacking
\* a column raises KeyError in this step.
Step3GotCourt(s) ==
    /\ At(s, "insert_step3_additional_metrics", "get_court")
    /\ \/ StorageRaises(s)
       \/ LET c == call[s]
              court == get_court_by_name(c.court_name)
              key == StoreKey(court, c.month, c.year)
              partial_data == partial_data_store[key]
              additional == validate_additional_metrics(
                  partial_data.pending_rape, partial_data.pending_pocso,
                  partial_data.disposed_rape, partial_data.disposed_pocso, c.args)
          IN  /\ IF court = None
                 THEN Finish(s, "EntityNotFound", None)
                 ELSE IF key \notin DOMAIN partial_data_store
                 THEN Finish(s, "StepOrderViolation", None)
                 ELSE IF ~Step2Done(partial_data_store, key)
                 THEN Finish(s, "StepOrderViolation", None)
                 ELSE IF ~additional.ok
                 THEN Finish(s, additional.kind, None)
                 ELSE IF ~(DataColumns \subseteq
                             DOMAIN CompleteData(partial_data, additional.value))
                 THEN Finish(s, "KeyError", None)
                 ELSE call' = [call EXCEPT
                         ![s].pc = "insert", ![s].court = court, ![s].args = None,
                         ![s].complete_data =
                             CompleteData(partial_data, additional.value)]
              /\ UNCHANGED <<partial_data_store, court_monthly_data, unique_key>>

\* What step 3 reports of the saved record.
Step3Payload(complete_data) ==
    [balance_total |-> complete_data.balance_total,
     new_total |-> complete_data.new_total,
     disposed_total |-> complete_data.disposed_total,
     pending_total |-> complete_data.pending_total,
     convictions |-> FloatAdd(complete_data.convictions_rape,
                             complete_data.convictions_pocso)]

\* Step 3 cleaning up the partial record whether or not the insert raised.
Step3Inserted_DiscardAlways(s) ==
    /\ At(s, "insert_step3_additional_metrics", "inserted")
    /\ LET c == call[s]
           key == StoreKey(c.court, c.month, c.year)
       IN  /\ partial_data_store' =
                 IF key \in DOMAIN partial_data_store
                 THEN Discard(partial_data_store, key)
                 ELSE partial_data_store
           /\ IF c.exc # "" THEN Finish(s, "StorageFailure", None)
              ELSE IF key \notin DOMAIN partial_data_store
              THEN Finish(s, "KeyError", None)
              ELSE Finish(s, "Success", Step3Payload(c.complete_data))
    /\ UNCHANGED <<court_monthly_data, unique_key>>

\* Step 3 letting the unique-key violation of its insert pass to its caller.
Step3Inserted_Reraises(s) ==
    /\ At(s, "insert_step3_additional_metrics", "inserted")
    /\ LET c == call[s]
           key == StoreKey(c.court, c.month, c.year)
       IN  IF c.exc = "UniqueViolation"
           THEN call' = [call EXCEPT ![s].pc = "raised"] /\ UNCHANGED partial_data_store
           ELSE IF c.exc # ""
           THEN Finish(s, "StorageFailure", None) /\ UNCHANGED partial_data_store
           ELSE IF key \notin DOMAIN partial_data_store
           THEN Finish(s, "KeyError", None) /\ UNCHANGED partial_data_store
           ELSE /\ partial_data_store' = Discard(partial_data_store, key)
                /\ Finish(s, "Success", Step3Payload(c.complete_data))
    /\ UNCHANGED <<court_monthly_data, unique_key>>

\* insert_court_monthly_data returned or raised: the partial record is
\* deleted from the store only after a successful insert.
Step3Inserted(s) ==
    /\ At(s, "insert_step3_additional_metrics", "inserted")
    /\ LET c == call[s]
           key == StoreKey(c.court, c.month, c.year)
       IN  IF c.exc # ""
           THEN Finish(s, "StorageFailure", None) /\ UNCHANGED partial_data_store
           ELSE IF key \notin DOMAIN partial_data_store
           THEN Finish(s, "KeyError", None) /\ UNCHANGED partial_data_store
           ELSE /\ partial_data_store' = Discard(partial_data_store, key)
                /\ Finish(s, "Success", Step3Payload(c.complete_data))
    /\ UNCHANGED <<court_monthly_data, unique_key>>

insert_step3_additional_metrics(s) ==
    Step3Call(s) \/ Step3GotCourt(s) \/ Step3Inserted(s)

\* ------------------------------------------------------ delete_monthly_data

DeleteCall(s) ==
    /\ Free(s)
    /\ \E n \in CourtNames, m \in Months, y \in Years :
          call' = [call EXCEPT ![s] = Frame("delete_monthly_data", n, m, y, None)]
    /\ UNCHANGED <<partial_data_store, court_monthly_data, unique_key>>

DeleteGotCourt(s) ==
    /\ At(s, "delete_monthly_data", "get_court")
    /\ \/ StorageRaises(s)
       \/ LET court == get_court_by_name(call[s].court_name) IN
          /\ IF court = None
             THEN Finish(s, "EntityNotFound", None)
             ELSE call' = [call EXCEPT ![s].pc = "check_existing", ![s].court = court]
          /\ UNCHANGED <<partial_data_store, court_monthly_data, unique_key>>

\* The deletion workflow sending its DELETE whatever the existence check said.
DeleteChecked_Unchecked(s) ==
    /\ At(s, "delete_monthly_data", "checked")
    /\ IF call[s].exc # "" THEN Finish(s, "StorageFailure", None)
       ELSE call' = [call EXCEPT ![s].pc = "delete"]
    /\ UNCHANGED <<partial_data_store, court_monthly_data, unique_key>>

\* check_existing_data returned: without a row nothing is deleted.
DeleteChecked(s) ==
    /\ At(s, "delete_monthly_data", "checked")
    /\ IF call[s].exc # "" THEN Finish(s, "StorageFailure", None)
       ELSE IF ~call[s].exists THEN Finish(s, "NotFound", None)
       ELSE call' = [call EXCEPT ![s].pc = "delete"]
    /\ UNCHANGED <<partial_data_store, court_monthly_data, unique_key>>

\* The deletion workflow also dropping the partial record of the key.
DeleteDeleted_Discarding(s) ==
    /\ At(s, "delete_monthly_data", "deleted")
    /\ IF call[s].exc # "" THEN Finish(s, "StorageFailure", None)
       ELSE Finish(s, "Success", None)
    /\ partial_data_store' =
          [k \in (DOMAIN partial_data_store)
                    \ {StoreKey(call[s].court, call[s].month, call[s].year)} |->
              partial_data_store[k]]
    /\ UNCHANGED <<court_monthly_data, unique_key>>

DeleteDeleted(s) ==
    /\ At(s, "delete_monthly_data", "deleted")
    /\ IF call[s].exc # "" THEN Finish(s, "StorageFailure", None)
       ELSE Finish(s, "Success", None)
    /\ UNCHANGED <<partial_data_store, court_monthly_data, unique_key>>

delete_monthly_data(s) ==
    DeleteCall(s) \/ DeleteGotCourt(s) \/ DeleteChecked(s) \/ DeleteDeleted(s)

\* ---------------------------------------------------------- specification

\* The caller has read the response; the slot is free again.
Return(s) ==
    /\ call[s].pc = "done"
    /\ call' = [call EXCEPT ![s] = Idle]
    /\ UNCHANGED <<partial_data_store, court_monthly_data, unique_key>>

Next ==
    \E s \in Slots :
        \/ check_data_exists(s)
        \/ insert_step1_basic_metrics(s)
        \/ insert_step2_age_breakdowns(s)
        \/ insert_step3_additional_metrics(s)
        \/ delete_monthly_data(s)
        \/ DbCheckExisting(s)
        \/ DbInsert(s)
        \/ DbDelete(s)
        \/ Return(s)

Spec == Init /\ [][Next]_vars

\* ------------------------------------- the validators on bounded arguments

\* The validators are pure functions of their arguments.  Their
\* specification starts with one validator call, its arguments drawn from
\* the sets below, in the first slot; the one step applies the validator and
\* keeps what it returned or raised.  Store and table stay empty.

\* The numbers a count is drawn from: the whole numbers of Vals, then the
\* fractions 0.2 and 0.5 (the count arguments are floats).
NumberIds == 0..(MaxCount + 2)
Number(i) == IF i <= MaxCount THEN i ELSE IF i = MaxCount + 1 THEN Fifth ELSE Half

\* validate_basic_metrics: the six counts numbered by i.
BasicArgs(i) ==
    [balance_rape |-> Number(i[1]), balance_pocso |-> Number(i[2]),
     new_rape |-> Number(i[3]), new_pocso |-> Number(i[4]),
     disposed_rape |-> Number(i[5]), disposed_pocso |-> Number(i[6])]

\* The fourteen bucket arguments of validate_age_breakdowns.
BucketFields == DOMAIN Step2Zero

\* The bucket vectors that spread at most n cases over the buckets.
RECURSIVE BucketVectors(_)
BucketVectors(n) ==
    IF n = 0 THEN {Step2Zero}
    ELSE LET fewer == BucketVectors(n - 1)
         IN  fewer \cup {[b EXCEPT ![f] = @ + 1] : b \in fewer, f \in BucketFields}

\* validate_age_breakdowns: buckets b, the step-1 values they sum to, and
\* then either nothing changed or the one bucket `changed` moved by `by`.
AgeArgs ==
    {[pending_rape |-> b.pending_less_2m_rape + b.pending_2_12m_rape
                          + b.pending_12m_5y_rape + b.pending_beyond_5y_rape,
      pending_pocso |-> b.pending_less_2m_pocso + b.pending_2_12m_pocso
                           + b.pending_12m_5y_pocso + b.pending_beyond_5y_pocso,
      disposed_rape |-> b.disposal_within_2m_rape + b.disposal_2_12m_rape
                           + b.disposal_beyond_12m_rape,
      disposed_pocso |-> b.disposal_within_2m_pocso + b.disposal_2_12m_pocso
                            + b.disposal_beyond_12m_pocso,
      b |-> IF c[1] = "none" THEN b ELSE [b EXCEPT ![c[1]] = @ + c[2]],
      changed |-> c[1],
      by |-> c[2]] :
        b \in BucketVectors(MaxCases),
        c \in {<<"none", 0>>} \cup (BucketFields \X {-1, 1})}

\* validate_additional_metrics: the four step-1 values, and every subset
\* field from zero to one above the largest step-1 value.
AdditionalArgs ==
    [pending_rape : Vals, pending_pocso : Vals,
     disposed_rape : Vals, disposed_pocso : Vals,
     m : [contested_rape : 0..(MaxCount + 1), contested_pocso : 0..(MaxCount + 1),
          disposal_5y_rape : 0..(MaxCount + 1), disposal_5y_pocso : 0..(MaxCount + 1),
          pending_over_5y_rape : 0..(MaxCount + 1),
          pending_over_5y_pocso : 0..(MaxCount + 1),
          convictions_rape : Vals, convictions_pocso : {0}]]

\* A real number kept as sign and magnitude is a float when rounding leaves
\* it as it is.
Representable(r) == RoundMag(r.mag) = r.mag

\* The first category's pendency buckets numbered by i, every other bucket
\* zero, and pending_rape the float equal to their sum as real numbers.
FractionalAgeSum(i) ==
    RealSum(RealSum(RealSum(Number(i[1]), Number(i[2])), Number(i[3])), Number(i[4]))

FractionalAgeArgs(i) ==
    [pending_rape |-> Unfixed(FractionalAgeSum(i)),
     pending_pocso |-> 0, disposed_rape |-> 0, disposed_pocso |-> 0,
     b |-> [Step2Zero EXCEPT !.pending_less_2m_rape = Number(i[1]),
                             !.pending_2_12m_rape = Number(i[2]),
                             !.pending_12m_5y_rape = Number(i[3]),
                             !.pending_beyond_5y_rape = Number(i[4])],
     changed |-> "none",
     by |-> 0]

\* validate_additional_metrics on fractions: the first category's step-1
\* values and two of its subset fields numbered by i, the rest zero.
FractionalAdditionalArgs(i) ==
    [pending_rape |-> Number(i[1]), pending_pocso |-> 0,
     disposed_rape |-> Number(i[2]), disposed_pocso |-> 0,
     m |-> [Step3Zero EXCEPT !.contested_rape = Number(i[3]),
                             !.pending_over_5y_rape = Number(i[4])]]

\* A validator about to be called with args, and after it returned or raised.
ValidatorCall(op, args) == [pc |-> "validate", op |-> op, args |-> args]
ValidatorReturned(c, out) ==
    [pc |-> "validated", op |-> c.op, args |-> c.args, out |-> out]

\* One validator call in the first slot, the other slots idle.
ValidatorFrame(op, args) == [s \in Slots |-> IF s = 1 THEN ValidatorCall(op, args) ELSE Idle]

ValidatorInit ==
    /\ partial_data_store = EmptyDict
    /\ court_monthly_data = EmptyDict
    /\ unique_key \in BOOLEAN
    /\ \/ \E i \in [1..6 -> NumberIds] :
            call = ValidatorFrame("validate_basic_metrics", BasicArgs(i))
       \/ \E a \in AgeArgs :
            call = ValidatorFrame("validate_age_breakdowns", a)
       \/ \E i \in [1..4 -> NumberIds] :
            /\ Representable(FractionalAgeSum(i))
            /\ call = ValidatorFrame("validate_age_breakdowns", FractionalAgeArgs(i))
       \/ \E a \in AdditionalArgs :
            call = ValidatorFrame("validate_additional_metrics", a)
       \/ \E i \in [1..4 -> NumberIds] :
            call = ValidatorFrame("validate_additional_metrics", FractionalAdditionalArgs(i))

ApplyBasicMetrics ==
    /\ At(1, "validate_basic_metrics", "validate")
    /\ LET a == call[1].args IN
       call' = [call EXCEPT ![1] = ValidatorReturned(call[1],
                   validate_basic_metrics(
                       a.balance_rape, a.balance_pocso, a.new_rape, a.new_pocso,
                       a.disposed_rape, a.disposed_pocso))]
    /\ UNCHANGED <<partial_data_store, court_monthly_data, unique_key>>

ApplyAgeBreakdowns ==
    /\ At(1, "validate_age_breakdowns", "validate")
    /\ LET a == call[1].args IN
       call' = [call EXCEPT ![1] = ValidatorReturned(call[1],
                   validate_age_breakdowns(
                       a.pending_rape, a.pending_pocso,
                       a.disposed_rape, a.disposed_pocso, a.b))]
    /\ UNCHANGED <<partial_data_store, court_monthly_data, unique_key>>

ApplyAdditionalMetrics ==
    /\ At(1, "validate_additional_metrics", "validate")
    /\ LET a == call[1].args IN
       call' = [call EXCEPT ![1] = ValidatorReturned(call[1],
                   validate_additional_metrics(
                       a.pending_rape, a.pending_pocso,
                       a.disposed_rape, a.disposed_pocso, a.m))]
    /\ UNCHANGED <<partial_data_store, court_monthly_data, unique_key>>

ValidatorNext == ApplyBasicMetrics \/ ApplyAgeBreakdowns \/ ApplyAdditionalMetrics

ValidatorSpec == ValidatorInit /\ [][ValidatorNext]_vars

\* ------------------------------------- the workflow beside other keys

\* The server with the workflows of two other months of the same court
\* already under way: February entered through step 2 and still in the
\* store, March entered through step 3 and committed.  The calls of Next are
\* for the months of Months; no call addresses February or March.
OtherCourt == get_court_by_name("FTSC Attingal")
PartialMonth == 2
CommittedMonth == 3
OtherYear == 2025

\* What the validators return for the entries of those two months.
OtherCalculated == validate_basic_metrics(1, 1, 1, 0, 1, 1).value

OtherAgeData ==
    validate_age_breakdowns(OtherCalculated.pending_rape, OtherCalculated.pending_pocso,
                            OtherCalculated.disposed_rape, OtherCalculated.disposed_pocso,
                            Step2Matching(1, 1)).value

OtherAdditional ==
    validate_additional_metrics(OtherCalculated.pending_rape, OtherCalculated.pending_pocso,
                                OtherCalculated.disposed_rape, OtherCalculated.disposed_pocso,
                                Step3AtBound(1)).value

\* What step 1 and step 2 leave in an empty store for the month given.
OtherStoreFor(month) ==
    LET key == StoreKey(OtherCourt, month, OtherYear)
    IN  Step2Update(Step1Store(EmptyDict, key, OtherCourt, OtherCourt.name,
                               month, OtherYear, OtherCalculated),
                    key, OtherAgeData)

OtherStore == OtherStoreFor(PartialMonth)

\* The table after step 3 committed the record of CommittedMonth.
OtherTable ==
    insert_court_monthly_data(
        EmptyDict, OtherCourt.id, CommittedMonth, OtherYear,
        CompleteData(OtherStoreFor(CommittedMonth)[StoreKey(OtherCourt, CommittedMonth, OtherYear)],
                     OtherAdditional))

OtherKeysInit ==
    /\ partial_data_store = OtherStore
    /\ court_monthly_data = OtherTable
    /\ unique_key \in BOOLEAN
    /\ call = [s \in Slots |-> Idle]

OtherKeysSpec == OtherKeysInit /\ [][Next]_vars

\* ----------------------------------------------------------------- claims

\* The data-model invariants of one committed row, for both categories.
RowConsistent(r) ==
    /\ r.pending_rape = r.balance_rape + r.new_rape - r.disposed_rape
    /\ r.pending_pocso = r.balance_pocso + r.new_pocso - r.disposed_pocso
    /\ r.pending_less_2m_rape + r.pending_2_12m_rape + r.pending_12m_5y_rape
           + r.pending_beyond_5y_rape = r.pending_rape
    /\ r.pending_less_2m_pocso + r.pending_2_12m_pocso + r.pending_12m_5y_pocso
           + r.pending_beyond_5y_pocso = r.pending_pocso
    /\ r.disposal_within_2m_rape + r.disposal_2_12m_rape + r.disposal_beyond_12m_rape
           = r.disposed_rape
    /\ r.disposal_within_2m_pocso + r.disposal_2_12m_pocso + r.disposal_beyond_12m_pocso
           = r.disposed_pocso
    /\ r.contested_rape <= r.disposed_rape
    /\ r.contested_pocso <= r.disposed_pocso
    /\ r.disposal_5y_rape <= r.disposed_rape
    /\ r.disposal_5y_pocso <= r.disposed_pocso
    /\ r.pending_over_5y_rape <= r.pending_rape
    /\ r.pending_over_5y_pocso <= r.pending_pocso

\* C1: whatever calls ran and however they interleaved, every row that step 3
\* inserted into court_monthly_data satisfies all data-model invariants at
\* once: pending = balance + new - disposed, the four pendency buckets sum to
\* pending, the three disposal buckets sum to disposed, and contested,
\* disposal_5y and pending_over_5y do not exceed disposed, disposed and pending.
C1_CommittedRowsConsistent ==
    \A k \in DOMAIN court_monthly_data :
        \A i \in DOMAIN court_monthly_data[k] : RowConsistent(court_monthly_data[k][i])

\* C1 witness: a row was committed while another call is in flight, with a
\* pending case and the subset fields at their bounds.
C1_Witness ==
    \E k \in DOMAIN court_monthly_data :
        /\ court_monthly_data[k][1].pending_rape = 1
        /\ court_monthly_data[k][1].pending_over_5y_rape = 1
        /\ court_monthly_data[k][1].contested_rape = court_monthly_data[k][1].disposed_rape
        /\ \E s \in Slots : call[s].pc \notin {"idle", "done"}

\* The handler in slot s resumes after get_court_by_name with the court
\* found and the storage working.
ResumesWithCourt(s) ==
    /\ call[s].pc = "get_court"
    /\ call'[s].pc # "get_court"
    /\ get_court_by_name(call[s].court_name) # None
    /\ ~(call'[s].pc = "done" /\ call'[s].result = "StorageFailure")

\* The store key of the call in slot s, whose court exists.
KeyOfCall(s) ==
    <<get_court_by_name(call[s].court_name).id, call[s].month, call[s].year>>

\* The call in slot s returns failure kind k with this step, and the step
\* changes neither the store nor the table.
FailsWith(s, k) ==
    /\ call'[s].pc = "done"
    /\ call'[s].result = k
    /\ UNCHANGED <<partial_data_store, court_monthly_data>>

HasFlag(key, flag) ==
    /\ key \in DOMAIN partial_data_store
    /\ flag \in DOMAIN partial_data_store[key]
    /\ partial_data_store[key][flag] = TRUE

\* C2: when step 2 reaches its step-order check and the key has no partial
\* record with step1_complete, or step 3 reaches its check and the key has no
\* partial record or one without step2_complete, the call fails with
\* StepOrderViolation whatever field values it was given.
C2_StepOrderEnforced ==
    [][\A s \in Slots :
         ResumesWithCourt(s) =>
            /\ (call[s].op = "insert_step2_age_breakdowns"
                   /\ ~HasFlag(KeyOfCall(s), "step1_complete"))
                  => FailsWith(s, "StepOrderViolation")
            /\ (call[s].op = "insert_step3_additional_metrics"
                   /\ ~HasFlag(KeyOfCall(s), "step2_complete"))
                  => FailsWith(s, "StepOrderViolation")]_vars

\* C2 witness: a step 2 was refused, and a step 3 was refused for a key whose
\* partial record has step 1 only.
C2_Witness ==
    /\ \E s \in Slots :
          /\ call[s].pc = "done"
          /\ call[s].op = "insert_step2_age_breakdowns"
          /\ call[s].result = "StepOrderViolation"
          /\ call[s].month = 1
    /\ \E s \in Slots :
          /\ call[s].pc = "done"
          /\ call[s].op = "insert_step3_additional_metrics"
          /\ call[s].result = "StepOrderViolation"
          /\ HasFlag(KeyOfCall(s), "step1_complete")
          /\ ~HasFlag(KeyOfCall(s), "step2_complete")

\* The failures a step can return: the kinds of the error taxonomy, and the
\* KeyError of step 3's del, which the handler returns as "Error: ..." through
\* the same except clause as a storage failure.
StepFailures ==
    {"EntityNotFound", "DuplicateEntry", "RangeError", "StepOrderViolation",
     "SumMismatch", "SubsetViolation", "StorageFailure", "KeyError"}

\* The call in slot s returns with this step.
Returns(s) == call[s].pc # "done" /\ call'[s].pc = "done"

\* An INSERT or DELETE of the call in slot s has taken effect.
WroteDurably(s) == call[s].pc \in {"inserted", "deleted"} /\ call[s].exc = ""

\* C3 (as claimed): a call that returns a failure (EntityNotFound,
\* DuplicateEntry, RangeError, StepOrderViolation, SumMismatch,
\* SubsetViolation, or an error of a storage call or of the clean-up) has not
\* changed the partial-record store for any key and has performed no durable
\* insert or delete: the store changes only in a step that returns Success,
\* and no call returns a failure after its statement took effect.
C3_FailedStepChangesNothing ==
    [][\A s \in Slots :
         /\ (Returns(s) /\ call'[s].result \in StepFailures)
               => /\ UNCHANGED <<partial_data_store, court_monthly_data>>
                  /\ ~WroteDurably(s)
         /\ (call'[s] # call[s] /\ partial_data_store' # partial_data_store)
               => (Returns(s) /\ call'[s].result = "Success")]_vars

\* The state that shows C3 wrong: a step 3 has returned a failure, and the
\* row its INSERT committed before is in the table.
C3_FailedAfterCommit ==
    \E s \in Slots :
        /\ call[s].pc = "done"
        /\ call[s].op = "insert_step3_additional_metrics"
        /\ call[s].result = "KeyError"
        /\ get_court_by_name(call[s].court_name) # None
        /\ KeyOfCall(s) \in DOMAIN court_monthly_data

\* The call in slot s is a step 3 resuming after its INSERT took effect.
Step3ResumesCommitted(s) ==
    /\ call[s].pc = "inserted"
    /\ call[s].op = "insert_step3_additional_metrics"
    /\ call[s].exc = ""
    /\ call'[s].pc = "done"

\* C4 (as claimed): every step 3 whose insert succeeded returns Success with
\* the partial record of its key removed, and a partial record leaves the
\* store only in the step of a step 3 whose insert committed the very
\* contents that record has at that moment; also when calls interleave.
C4_CommitAndRemovalAtomic ==
    [][/\ \A s \in Slots :
            Step3ResumesCommitted(s) =>
               /\ call'[s].result = "Success"
               /\ KeyOfCall(s) \notin DOMAIN partial_data_store'
       /\ \A k \in DOMAIN partial_data_store :
            k \notin DOMAIN partial_data_store' =>
               \E s \in Slots :
                  /\ Step3ResumesCommitted(s)
                  /\ KeyOfCall(s) = k
                  /\ \A f \in DOMAIN partial_data_store[k] :
                        /\ f \in DOMAIN call[s].complete_data
                        /\ call[s].complete_data[f] = partial_data_store[k][f]]_vars

\* The step-3 arguments of the call in slot s respect the subset bounds of
\* the record r.
WithinBounds(s, r) ==
    /\ call[s].args.contested_rape <= r.disposed_rape
    /\ call[s].args.contested_pocso <= r.disposed_pocso
    /\ call[s].args.disposal_5y_rape <= r.disposed_rape
    /\ call[s].args.disposal_5y_pocso <= r.disposed_pocso
    /\ call[s].args.pending_over_5y_rape <= r.pending_rape
    /\ call[s].args.pending_over_5y_pocso <= r.pending_pocso

\* C5: when the insert of a step 3 raised a storage failure, the call returns
\* StorageFailure and leaves the store as it is, so the record keeps its flags
\* and fields; and a step 3 that finds a record with step2_complete and is
\* given values within the bounds goes on to the insert, and returns Success
\* once the insert took effect, with no step 1 or step 2 in between.
C5_FailedCommitKeepsRecord ==
    [][\A s \in Slots :
         /\ (/\ call[s].pc = "inserted"
             /\ call[s].exc \in {"StorageFailure", "UniqueViolation"}
             /\ call'[s] # call[s])
               => /\ call'[s].pc = "done"
                  /\ call'[s].result = "StorageFailure"
                  /\ UNCHANGED <<partial_data_store, court_monthly_data>>
         /\ (/\ ResumesWithCourt(s)
             /\ call[s].op = "insert_step3_additional_metrics"
             /\ HasFlag(KeyOfCall(s), "step2_complete")
             /\ WithinBounds(s, partial_data_store[KeyOfCall(s)]))
               => call'[s].pc = "insert"
         /\ (/\ Step3ResumesCommitted(s)
             /\ KeyOfCall(s) \in DOMAIN partial_data_store)
               => call'[s].result = "Success"]_vars

\* C5 witness: one step 3 for a key returned StorageFailure and another step 3
\* for the same key returned Success, its row committed.
C5_Witness ==
    \E s, t \in Slots :
        /\ call[s].pc = "done" /\ call[t].pc = "done"
        /\ call[s].op = "insert_step3_additional_metrics"
        /\ call[t].op = "insert_step3_additional_metrics"
        /\ call[s].result = "StorageFailure"
        /\ call[t].result = "Success"
        /\ get_court_by_name(call[s].court_name) # None
        /\ KeyOfCall(s) = KeyOfCall(t)
        /\ KeyOfCall(s) \in DOMAIN court_monthly_data

\* C6 (as claimed): a step 1 whose existence check found a committed record
\* for its key returns DuplicateEntry, and when it has returned no partial
\* record exists for that key.
C6_DuplicateLeavesNoPartial ==
    [][\A s \in Slots :
         (/\ call[s].pc = "checked"
          /\ call[s].op = "insert_step1_basic_metrics"
          /\ call[s].exc = ""
          /\ call[s].exists
          /\ call'[s] # call[s])
            => /\ call'[s].pc = "done"
               /\ call'[s].result = "DuplicateEntry"
               /\ KeyOfCall(s) \notin DOMAIN partial_data_store']_vars

\* C7 (as claimed): the table holds at most one row per (court id, month,
\* year), and a step 3 never awaits the insert for a key that has a row in
\* the table at that moment.
C7_InsertOnlyWithoutCommitted ==
    [][/\ \A k \in DOMAIN court_monthly_data' :
            /\ Len(court_monthly_data'[k]) = 1
            /\ court_monthly_data'[k][1].court_id = k[1]
            /\ court_monthly_data'[k][1].month = k[2]
            /\ court_monthly_data'[k][1].year = k[3]
       /\ \A s \in Slots :
            (/\ call[s].pc = "get_court"
             /\ call'[s].pc = "insert")
               => KeyOfCall(s) \notin DOMAIN court_monthly_data]_vars

\* The partial record step 1 is to leave for the call in slot s: the key
\* fields, the six counts given, pending = balance + new - disposed per
\* category, the four totals, and step1_complete; no other field.
ExpectedStep1Record(s) ==
    LET a == call[s].args IN
    [court_id |-> get_court_by_name(call[s].court_name).id,
     court_name |-> call[s].court_name,
     month |-> call[s].month,
     year |-> call[s].year,
     balance_rape |-> a.balance_rape,
     balance_pocso |-> a.balance_pocso,
     balance_total |-> a.balance_rape + a.balance_pocso,
     new_rape |-> a.new_rape,
     new_pocso |-> a.new_pocso,
     new_total |-> a.new_rape + a.new_pocso,
     disposed_rape |-> a.disposed_rape,
     disposed_pocso |-> a.disposed_pocso,
     disposed_total |-> a.disposed_rape + a.disposed_pocso,
     pending_rape |-> a.balance_rape + a.new_rape - a.disposed_rape,
     pending_pocso |-> a.balance_pocso + a.new_pocso - a.disposed_pocso,
     pending_total |-> (a.balance_rape + a.new_rape - a.disposed_rape)
                       + (a.balance_pocso + a.new_pocso - a.disposed_pocso),
     step1_complete |-> TRUE]

\* The step 1 in slot s has its period in range, its court found and no
\* committed record found for its key.
Step1Admitted(s) ==
    /\ call[s].pc = "checked"
    /\ call[s].op = "insert_step1_basic_metrics"
    /\ call[s].exc = ""
    /\ ~call[s].exists

\* The step 1 in slot s is admitted and its counts pass validate_basic_metrics.
Step1PassedChecks(s) ==
    /\ Step1Admitted(s)
    /\ LET a == call[s].args
       IN  validate_basic_metrics(a.balance_rape, a.balance_pocso, a.new_rape,
                                  a.new_pocso, a.disposed_rape, a.disposed_pocso).ok

\* C8: a step 1 with the period in range, the court found and no committed
\* record found returns Success whether or not the store already has a record
\* for the key, and the record then in the store is exactly the one derived
\* from this call's arguments, with step1_complete and nothing kept from an
\* earlier record.
C8_Step1Overwrites ==
    [][\A s \in Slots :
         (Step1Admitted(s) /\ call'[s] # call[s])
            => /\ call'[s].pc = "done"
               /\ call'[s].result = "Success"
               /\ KeyOfCall(s) \in DOMAIN partial_data_store'
               /\ partial_data_store'[KeyOfCall(s)] = ExpectedStep1Record(s)]_vars

\* C8 witness: a step 1 returned Success for a key while a step 3 holds, for
\* its insert, an earlier record of that key with another balance; the record
\* now in the store has no step-2 field.
C8_Witness ==
    \E s, t \in Slots :
        /\ call[s].pc = "done"
        /\ call[s].op = "insert_step1_basic_metrics"
        /\ call[s].result = "Success"
        /\ call[t].pc = "insert"
        /\ KeyOfCall(t) = KeyOfCall(s)
        /\ KeyOfCall(s) \in DOMAIN partial_data_store
        /\ call[t].complete_data.balance_rape
              # partial_data_store[KeyOfCall(s)].balance_rape
        /\ "step2_complete" \notin DOMAIN partial_data_store[KeyOfCall(s)]

\* The call that shows C8 wrong: a step 1 that was admitted, with 0.2 new
\* cases in the second category, returned InvariantViolation and left no
\* record for its key.
C8_Refused ==
    \E s \in Slots :
        /\ call[s].pc = "done"
        /\ call[s].op = "insert_step1_basic_metrics"
        /\ call[s].result = "InvariantViolation"
        /\ KeyOfCall(s) \notin DOMAIN partial_data_store

\* The part of C8 that holds: an admitted step 1 whose counts pass
\* validate_basic_metrics returns Success and leaves exactly its own record.
C8_ValidatedStep1Overwrites ==
    [][\A s \in Slots :
         (Step1PassedChecks(s) /\ call'[s] # call[s])
            => /\ call'[s].pc = "done"
               /\ call'[s].result = "Success"
               /\ KeyOfCall(s) \in DOMAIN partial_data_store'
               /\ partial_data_store'[KeyOfCall(s)] = ExpectedStep1Record(s)]_vars

\* C9: when two step-1 calls for the same key have both passed their checks,
\* each of them returns Success: the one that writes first leaves exactly its
\* record, the one that writes second replaces it with exactly its own, and
\* the response of the first is not changed.
C9_LastWriterWins ==
    [][\A s, t \in Slots :
         (/\ s # t
          /\ Step1PassedChecks(s)
          /\ call'[s] # call[s]
          /\ \/ /\ Step1PassedChecks(t)
                /\ KeyOfCall(t) = KeyOfCall(s)
             \/ /\ call[t].pc = "done"
                /\ call[t].op = "insert_step1_basic_metrics"
                /\ call[t].result = "Success"
                /\ KeyOfCall(t) = KeyOfCall(s))
            => /\ call'[s].pc = "done"
               /\ call'[s].result = "Success"
               /\ partial_data_store' =
                     [k \in DOMAIN partial_data_store \cup {KeyOfCall(s)} |->
                         IF k = KeyOfCall(s) THEN ExpectedStep1Record(s)
                         ELSE partial_data_store[k]]
               /\ call'[t] = call[t]]_vars

\* C9 witness: two step-1 calls for the same key both returned Success with
\* different pending counts, and the store holds the record of one of them.
C9_Witness ==
    /\ \A s \in {1, 2} :
          /\ call[s].pc = "done"
          /\ call[s].op = "insert_step1_basic_metrics"
          /\ call[s].result = "Success"
    /\ KeyOfCall(1) = KeyOfCall(2)
    /\ call[1].payload.pending_rape # call[2].payload.pending_rape
    /\ KeyOfCall(1) \in DOMAIN partial_data_store
    /\ partial_data_store[KeyOfCall(1)].pending_rape = call[1].payload.pending_rape
    /\ "step2_complete" \notin DOMAIN partial_data_store[KeyOfCall(1)]

\* C10: when a step 3 returns Success its key is no longer in the store, so
\* the step-order checks of step 2 and of step 3 fail for that key.
C10_CommittedRecordDiscarded ==
    [][\A s \in Slots :
         (/\ call[s].pc = "inserted"
          /\ call[s].op = "insert_step3_additional_metrics"
          /\ Returns(s)
          /\ call'[s].result = "Success")
            => /\ KeyOfCall(s) \notin DOMAIN partial_data_store'
               /\ ~Step1Done(partial_data_store', KeyOfCall(s))]_vars

\* C10 witness: a step 3 returned Success, its row is committed, the key is
\* not in the store, and a step 2 for the same key was refused.
C10_Witness ==
    \E s, t \in Slots :
        /\ call[s].pc = "done"
        /\ call[s].op = "insert_step3_additional_metrics"
        /\ call[s].result = "Success"
        /\ call[t].pc = "done"
        /\ call[t].op = "insert_step2_age_breakdowns"
        /\ call[t].result = "StepOrderViolation"
        /\ KeyOfCall(t) = KeyOfCall(s)
        /\ KeyOfCall(s) \notin DOMAIN partial_data_store
        /\ KeyOfCall(s) \in DOMAIN court_monthly_data

\* The existence query of the call in slot s takes effect, the storage working.
QueryAnswered(s) ==
    /\ call[s].pc = "check_existing"
    /\ call'[s].pc = "checked"
    /\ call'[s].exc = ""

\* A row leaves the table only by the DELETE of a deletion workflow for its key.
RowsLeaveByDeleteOnly ==
    \A k \in DOMAIN court_monthly_data :
        k \notin DOMAIN court_monthly_data' =>
            \E s \in Slots :
                /\ call[s].pc = "delete"
                /\ call[s].op = "delete_monthly_data"
                /\ KeyOfCall(s) = k
                /\ call'[s].pc = "deleted"
                /\ call'[s].exc = ""

\* C11: a step 3 returns Success only after its INSERT added a row for its
\* key to the table; the key keeps a row until the DELETE of a deletion
\* workflow for that key takes effect; and check_data_exists answers Exists
\* exactly when a row is there at the moment of its query (storage working).
C11_CommittedRecordExists ==
    [][/\ \A s \in Slots :
            /\ (call[s].pc = "insert" /\ call'[s].pc = "inserted" /\ call'[s].exc = "")
                  => /\ KeyOfCall(s) \in DOMAIN court_monthly_data'
                     /\ RowsWith(court_monthly_data', KeyOfCall(s)[1], KeyOfCall(s)[2],
                                 KeyOfCall(s)[3])
                          = RowsWith(court_monthly_data, KeyOfCall(s)[1], KeyOfCall(s)[2],
                                     KeyOfCall(s)[3]) + 1
            /\ (/\ call[s].pc = "inserted"
                /\ call[s].op = "insert_step3_additional_metrics"
                /\ Returns(s)
                /\ call'[s].result = "Success")
                  => call[s].exc = ""
            /\ (QueryAnswered(s) /\ call[s].op = "check_data_exists")
                  => call'[s].exists = (KeyOfCall(s) \in DOMAIN court_monthly_data)
            /\ (/\ call[s].pc = "checked"
                /\ call[s].op = "check_data_exists"
                /\ call[s].exc = ""
                /\ call'[s] # call[s])
                  => /\ call'[s].pc = "done"
                     /\ call'[s].result = IF call[s].exists THEN "Exists" ELSE "NoData"
       /\ RowsLeaveByDeleteOnly]_vars

\* C11 witness: a step 3 returned Success, its row is in the table, and a
\* check_data_exists for the same key answered Exists.
C11_Witness ==
    \E s, t \in Slots :
        /\ call[s].pc = "done"
        /\ call[s].op = "insert_step3_additional_metrics"
        /\ call[s].result = "Success"
        /\ call[t].pc = "done"
        /\ call[t].op = "check_data_exists"
        /\ call[t].result = "Exists"
        /\ KeyOfCall(t) = KeyOfCall(s)
        /\ KeyOfCall(s) \in DOMAIN court_monthly_data

\* C12: a deletion workflow whose existence query found no row returns
\* NotFound without sending a DELETE; a DELETE is sent only by a deletion
\* workflow whose existence query answered true; and the query answers true
\* exactly when the row is there at that moment.
C12_DeleteOnlyExisting ==
    [][\A s \in Slots :
         /\ (/\ call[s].pc = "checked"
             /\ call[s].op = "delete_monthly_data"
             /\ call[s].exc = ""
             /\ ~call[s].exists
             /\ call'[s] # call[s])
               => FailsWith(s, "NotFound")
         /\ (call[s].pc # "delete" /\ call'[s].pc = "delete")
               => /\ call[s].pc = "checked"
                  /\ call[s].op = "delete_monthly_data"
                  /\ call[s].exc = ""
                  /\ call[s].exists
         /\ (QueryAnswered(s) /\ call[s].op = "delete_monthly_data")
               => call'[s].exists = (KeyOfCall(s) \in DOMAIN court_monthly_data)
         /\ (court_monthly_data' # court_monthly_data /\ call[s].pc = "delete")
               => call[s].op = "delete_monthly_data"]_vars

\* C12 witness: a deletion returned Success and a second deletion for the
\* same key, finding no row, returned NotFound.
C12_Witness ==
    \E s, t \in Slots :
        /\ call[s].pc = "done"
        /\ call[s].op = "delete_monthly_data"
        /\ call[s].result = "Success"
        /\ call[t].pc = "done"
        /\ call[t].op = "delete_monthly_data"
        /\ call[t].result = "NotFound"
        /\ call[t].court_name = call[s].court_name
        /\ call[t].month = call[s].month
        /\ call[t].year = call[s].year
        /\ court_monthly_data = EmptyDict

\* The step changes the call in slot s, which is a deletion workflow.
DeleteStep(s) ==
    /\ call'[s] # call[s]
    /\ \/ call[s].pc # "idle" /\ call[s].op = "delete_monthly_data"
       \/ call[s].pc = "idle" /\ call'[s].op = "delete_monthly_data"

\* C13: no step of a deletion workflow, from the call to the return and
\* whatever it returns, changes the partial-record store for any key.
C13_DeleteLeavesStore ==
    [][\A s \in Slots : DeleteStep(s) => UNCHANGED partial_data_store]_vars

\* C13 witness: a deletion returned Success while the store holds a partial
\* record with both steps complete for the deleted key.
C13_Witness ==
    \E s \in Slots :
        /\ call[s].pc = "done"
        /\ call[s].op = "delete_monthly_data"
        /\ call[s].result = "Success"
        /\ HasFlag(KeyOfCall(s), "step2_complete")
        /\ KeyOfCall(s) \notin DOMAIN court_monthly_data

\* C14: once the DELETE of a deletion workflow took effect the key has no
\* row; a step 1 whose existence query runs while the key has no row is not
\* refused as a duplicate but returns Success; and DuplicateEntry is returned
\* only when the query found a row.
C14_ReentryAfterDelete ==
    [][\A s \in Slots :
         /\ (call[s].pc = "delete" /\ call'[s].pc = "deleted" /\ call'[s].exc = "")
               => KeyOfCall(s) \notin DOMAIN court_monthly_data'
         /\ (/\ QueryAnswered(s)
             /\ call[s].op = "insert_step1_basic_metrics"
             /\ KeyOfCall(s) \notin DOMAIN court_monthly_data)
               => ~call'[s].exists
         /\ (Step1PassedChecks(s) /\ call'[s] # call[s])
               => /\ call'[s].pc = "done"
                  /\ call'[s].result = "Success"
                  /\ HasFlag(KeyOfCall(s), "step1_complete")'
         /\ (Returns(s) /\ call'[s].result = "DuplicateEntry")
               => call[s].pc = "checked" /\ call[s].exists]_vars

\* C14 witness: a deletion returned Success, and with that response still
\* unread a step 3 for the same key has committed a row that is in the table.
C14_Witness ==
    \E s, t \in Slots :
        /\ call[s].pc = "done"
        /\ call[s].op = "delete_monthly_data"
        /\ call[s].result = "Success"
        /\ call[t].pc = "done"
        /\ call[t].op = "insert_step3_additional_metrics"
        /\ call[t].result = "Success"
        /\ KeyOfCall(t) = KeyOfCall(s)
        /\ KeyOfCall(s) \in DOMAIN court_monthly_data
        /\ KeyOfCall(s) \notin DOMAIN partial_data_store

\* The step-2 buckets b sum, per category, to the pending and disposed
\* values of the record r.
SumsMatch(b, r) ==
    /\ b.pending_less_2m_rape + b.pending_2_12m_rape + b.pending_12m_5y_rape
          + b.pending_beyond_5y_rape = r.pending_rape
    /\ b.pending_less_2m_pocso + b.pending_2_12m_pocso + b.pending_12m_5y_pocso
          + b.pending_beyond_5y_pocso = r.pending_pocso
    /\ b.disposal_within_2m_rape + b.disposal_2_12m_rape + b.disposal_beyond_12m_rape
          = r.disposed_rape
    /\ b.disposal_within_2m_pocso + b.disposal_2_12m_pocso + b.disposal_beyond_12m_pocso
          = r.disposed_pocso

\* C15: a step 2 that fails with SumMismatch, and a step 3 that fails with
\* SubsetViolation, leave the store as it was, so the record keeps its flags
\* and values; and a step 2 that finds step1_complete and is given matching
\* sums returns Success, a step 3 that finds step2_complete and is given
\* values within the bounds goes on to its insert, with no earlier step
\* repeated.
C15_ValidationFailureRecoverable ==
    [][\A s \in Slots :
         ResumesWithCourt(s) =>
            /\ (/\ call[s].op = "insert_step2_age_breakdowns"
                /\ HasFlag(KeyOfCall(s), "step1_complete"))
                  => IF SumsMatch(call[s].args, partial_data_store[KeyOfCall(s)])
                     THEN /\ call'[s].pc = "done"
                          /\ call'[s].result = "Success"
                          /\ HasFlag(KeyOfCall(s), "step2_complete")'
                     ELSE FailsWith(s, "SumMismatch")
            /\ (/\ call[s].op = "insert_step3_additional_metrics"
                /\ HasFlag(KeyOfCall(s), "step2_complete"))
                  => IF WithinBounds(s, partial_data_store[KeyOfCall(s)])
                     THEN call'[s].pc = "insert" /\ call'[s].exc = ""
                     ELSE FailsWith(s, "SubsetViolation")]_vars

\* C15 witness: a step 3 returned SubsetViolation and a second step 3 for
\* the same key, given values within the bounds, has committed the record.
C15_Witness ==
    \E s, t \in Slots :
        /\ call[s].pc = "done"
        /\ call[s].op = "insert_step3_additional_metrics"
        /\ call[s].result = "SubsetViolation"
        /\ call[t].pc = "done"
        /\ call[t].op = "insert_step3_additional_metrics"
        /\ call[t].result = "Success"
        /\ KeyOfCall(t) = KeyOfCall(s)
        /\ KeyOfCall(s) \in DOMAIN court_monthly_data

\* The validator op has been applied in the first slot.
Validated(op) == call[1].pc = "validated" /\ call[1].op = op

\* x = y on floats.
FloatEq(x, y) == ~FloatNe(x, y)

\* C16: for all non-negative balance, new and disposed counts,
\* validate_basic_metrics returns, and what it returns has, per category,
\* pending = balance + new - disposed, and each of the four totals equal to
\* the sum of its two per-category values.
C16_BasicMetricsDerived ==
    Validated("validate_basic_metrics") =>
        LET a == call[1].args
            out == call[1].out
        IN  /\ out.ok
            /\ FloatEq(out.value.pending_rape,
                       FloatSub(FloatAdd(a.balance_rape, a.new_rape), a.disposed_rape))
            /\ FloatEq(out.value.pending_pocso,
                       FloatSub(FloatAdd(a.balance_pocso, a.new_pocso), a.disposed_pocso))
            /\ FloatEq(out.value.balance_total, FloatAdd(a.balance_rape, a.balance_pocso))
            /\ FloatEq(out.value.new_total, FloatAdd(a.new_rape, a.new_pocso))
            /\ FloatEq(out.value.disposed_total, FloatAdd(a.disposed_rape, a.disposed_pocso))
            /\ FloatEq(out.value.pending_total,
                       FloatAdd(out.value.pending_rape, out.value.pending_pocso))

\* The call that shows C16 wrong: nothing on hand, one new case in the first
\* category and 0.2 in the second, one disposed in the first; the check of
\* pending_total compares (1 - 1) + 0.2 with (1 + 0.2) - 1 and raises.
C16_Raised ==
    /\ Validated("validate_basic_metrics")
    /\ FloatEq(call[1].args.balance_rape, 0)
    /\ FloatEq(call[1].args.balance_pocso, 0)
    /\ FloatEq(call[1].args.new_rape, 1)
    /\ FloatEq(call[1].args.new_pocso, Fifth)
    /\ FloatEq(call[1].args.disposed_rape, 1)
    /\ FloatEq(call[1].args.disposed_pocso, 0)
    /\ ~call[1].out.ok
    /\ call[1].out.kind = "InvariantViolation"

\* Two real numbers kept as sign and magnitude are equal.
RealEq(q, r) == q.mag = r.mag /\ (q.neg = r.neg \/ q.mag = <<0, 0, 0>>)

\* As real numbers, the four pendency buckets of b sum to pending and the
\* three disposal buckets to disposed, in both categories of r.
BucketsSumExactly(b, r) ==
    /\ RealEq(RealSum(RealSum(RealSum(b.pending_less_2m_rape, b.pending_2_12m_rape),
                              b.pending_12m_5y_rape), b.pending_beyond_5y_rape),
              Fixed(r.pending_rape))
    /\ RealEq(RealSum(RealSum(RealSum(b.pending_less_2m_pocso, b.pending_2_12m_pocso),
                              b.pending_12m_5y_pocso), b.pending_beyond_5y_pocso),
              Fixed(r.pending_pocso))
    /\ RealEq(RealSum(RealSum(b.disposal_within_2m_rape, b.disposal_2_12m_rape),
                      b.disposal_beyond_12m_rape),
              Fixed(r.disposed_rape))
    /\ RealEq(RealSum(RealSum(b.disposal_within_2m_pocso, b.disposal_2_12m_pocso),
                      b.disposal_beyond_12m_pocso),
              Fixed(r.disposed_pocso))

\* C17: validate_age_breakdowns, given buckets whose four sums equal the
\* step-1 pending and disposed values, returns the four totals equal to those
\* values; given such buckets with any single bucket changed by +1 or -1, it
\* raises SumMismatch.
C17_AgeBreakdownSums ==
    Validated("validate_age_breakdowns") =>
        LET a == call[1].args
            out == call[1].out
        IN  /\ BucketsSumExactly(a.b, a) =>
                /\ out.ok
                /\ FloatEq(out.value.total_pendency_rape, a.pending_rape)
                /\ FloatEq(out.value.total_pendency_pocso, a.pending_pocso)
                /\ FloatEq(out.value.total_disposal_rape, a.disposed_rape)
                /\ FloatEq(out.value.total_disposal_pocso, a.disposed_pocso)
            /\ a.changed # "none" =>
                /\ ~out.ok
                /\ out.kind = "SumMismatch"

\* The call that shows C17 wrong: pendency buckets 0.5, 0.2 and 0.2 of the
\* first category, whose sum as real numbers is the float 0.9 given as
\* pending_rape; the sum the code computes is 0.8999999999999999.
C17_Raised ==
    /\ Validated("validate_age_breakdowns")
    /\ FloatEq(call[1].args.b.pending_less_2m_rape, Half)
    /\ FloatEq(call[1].args.b.pending_2_12m_rape, Fifth)
    /\ FloatEq(call[1].args.b.pending_12m_5y_rape, Fifth)
    /\ FloatEq(call[1].args.b.pending_beyond_5y_rape, 0)
    /\ FloatEq(call[1].args.pending_rape,
               [neg |-> FALSE, mag |-> <<58982, 419430, 419432>>])
    /\ BucketsSumExactly(call[1].args.b, call[1].args)
    /\ ~call[1].out.ok
    /\ call[1].out.kind = "SumMismatch"
    /\ call[1].out.field = "pending_rape"

\* The part of C17 that holds: a single bucket changed by +1 or -1 makes
\* validate_age_breakdowns raise SumMismatch, and whole-number buckets that
\* sum to the step-1 values are returned with matching totals.
C17_WholeNumbers ==
    Validated("validate_age_breakdowns") =>
        LET a == call[1].args
            out == call[1].out
        IN  /\ a.changed # "none" => ~out.ok /\ out.kind = "SumMismatch"
            /\ (a.changed = "none" /\ \A f \in BucketFields : Whole(a.b[f])) =>
                /\ out.ok
                /\ FloatEq(out.value.total_pendency_rape, a.pending_rape)
                /\ FloatEq(out.value.total_disposal_pocso, a.disposed_pocso)

\* x <= y as real numbers: y - x is not negative.
AtMost(x, y) ==
    LET d == RealSum(y, FloatNeg(x))
    IN  ~d.neg \/ d.mag = <<0, 0, 0>>

\* Every subset field of m is at most its bound among the step-1 values r.
SubsetsWithin(m, r) ==
    /\ AtMost(m.contested_rape, r.disposed_rape)
    /\ AtMost(m.contested_pocso, r.disposed_pocso)
    /\ AtMost(m.disposal_5y_rape, r.disposed_rape)
    /\ AtMost(m.disposal_5y_pocso, r.disposed_pocso)
    /\ AtMost(m.pending_over_5y_rape, r.pending_rape)
    /\ AtMost(m.pending_over_5y_pocso, r.pending_pocso)

\* C18: validate_additional_metrics raises SubsetViolation whenever a
\* contested or disposal_5y value exceeds disposed, or a pending_over_5y
\* value exceeds pending, in either category; it returns, with the values it
\* was given, when every subset field is at most its bound, equality included.
C18_SubsetBounds ==
    Validated("validate_additional_metrics") =>
        LET a == call[1].args
            out == call[1].out
        IN  IF SubsetsWithin(a.m, a)
            THEN /\ out.ok
                 /\ \A f \in DOMAIN a.m : FloatEq(out.value[f], a.m[f])
            ELSE /\ ~out.ok
                 /\ out.kind = "SubsetViolation"

\* C18 witness: validate_additional_metrics returned for a call in which
\* contested_rape equals disposed_rape at 0.2 and pending_over_5y_rape equals
\* pending_rape at 0.5.
C18_Witness ==
    /\ Validated("validate_additional_metrics")
    /\ FloatEq(call[1].args.disposed_rape, Fifth)
    /\ FloatEq(call[1].args.m.contested_rape, Fifth)
    /\ FloatEq(call[1].args.pending_rape, Half)
    /\ FloatEq(call[1].args.m.pending_over_5y_rape, Half)
    /\ call[1].out.ok
    /\ FloatEq(call[1].out.value.contested_total, Fifth)

\* Slot s accepts a step-1 call in this step.
Step1Arrives(s) ==
    /\ call[s].pc = "idle"
    /\ call'[s].pc # "idle"
    /\ call'[s].op = "insert_step1_basic_metrics"

InRange(month, year) == 1 <= month /\ month <= 12 /\ 2020 <= year /\ year <= 2030

\* C19: a step-1 call with month outside [1,12] or year outside [2020,2030]
\* returns RangeError at once, with the store as it was, and so creates no
\* partial record; with month and year in range the period check passes and
\* the handler goes on to look up the court.
C19_PeriodChecked ==
    [][\A s \in Slots :
            Step1Arrives(s) =>
                IF InRange(call'[s].month, call'[s].year)
                THEN call'[s].pc = "get_court"
                ELSE /\ call'[s].pc = "done"
                     /\ call'[s].result = "RangeError"
                     /\ partial_data_store' = partial_data_store]_vars

\* C19 witness: a step-1 call for an existing court and the year 2031 has
\* returned RangeError, while a step-1 call for the same court in range has
\* succeeded and its partial record is the only one in the store.
C19_Witness ==
    \E s, t \in Slots :
        /\ call[s].pc = "done"
        /\ call[s].op = "insert_step1_basic_metrics"
        /\ call[s].result = "RangeError"
        /\ call[s].court_name = "FTSC Attingal"
        /\ call[s].year = 2031
        /\ call[t].pc = "done"
        /\ call[t].op = "insert_step1_basic_metrics"
        /\ call[t].result = "Success"
        /\ DOMAIN partial_data_store = {KeyOfCall(t)}

\* C20: every operation (step 1, step 2, step 3, delete, check-exists) called
\* with a name that resolves to no court returns EntityNotFound, and returns
\* without a change to the store or the table.  A call whose court query
\* itself raised is left aside: its name was not resolved at all.
C20_UnknownNameRefused ==
    [][\A s \in Slots :
         (/\ Returns(s)
          /\ get_court_by_name(call'[s].court_name) = None
          /\ call'[s].result # "StorageFailure")
            => /\ call'[s].result = "EntityNotFound"
               /\ UNCHANGED <<partial_data_store, court_monthly_data>>]_vars

\* The call that shows C20 wrong: step 1 for a name that resolves to no court
\* and month 13 has returned RangeError.
C20_RangeErrorFirst ==
    \E s \in Slots :
        /\ call[s].pc = "done"
        /\ call[s].op = "insert_step1_basic_metrics"
        /\ call[s].court_name = "No Such Court"
        /\ call[s].month = 13
        /\ call[s].result = "RangeError"

\* The part of C20 that holds: a call with a name that resolves to no court
\* returns EntityNotFound as soon as the court query has answered, whatever
\* the operation, and changes neither the store nor the table.
C20_AfterLookup ==
    [][\A s \in Slots :
         (/\ call[s].pc = "get_court"
          /\ Returns(s)
          /\ get_court_by_name(call[s].court_name) = None
          /\ call'[s].result # "StorageFailure")
            => /\ call'[s].result = "EntityNotFound"
               /\ UNCHANGED <<partial_data_store, court_monthly_data>>]_vars

\* C21: in step 1 the court is resolved before any validator runs: a call
\* that arrives goes to the court query whatever its period, and a step-1 call
\* naming an unknown court returns EntityNotFound whatever its other
\* arguments, an out-of-range month or year included.
C21_CourtResolvedFirst ==
    [][\A s \in Slots :
         /\ Step1Arrives(s) => call'[s].pc = "get_court"
         /\ (/\ Returns(s)
             /\ call'[s].op = "insert_step1_basic_metrics"
             /\ get_court_by_name(call'[s].court_name) = None
             /\ call'[s].result # "StorageFailure")
               => call'[s].result = "EntityNotFound"]_vars

\* The call that shows C21 wrong: step 1 for an unknown court and the year
\* 2019 has returned RangeError.
C21_ValidatorFirst ==
    \E s \in Slots :
        /\ call[s].pc = "done"
        /\ call[s].op = "insert_step1_basic_metrics"
        /\ call[s].court_name = "No Such Court"
        /\ call[s].year = 2019
        /\ call[s].result = "RangeError"

\* C22: validate_basic_metrics never raises InvariantViolation: for every
\* six counts its check of pending_total against balance_total + new_total -
\* disposed_total passes and it returns.
C22_SelfCheckRedundant ==
    Validated("validate_basic_metrics") =>
        /\ call[1].out.ok
        /\ LET v == call[1].out.value
           IN  FloatEq(v.pending_total,
                       FloatSub(FloatAdd(v.balance_total, v.new_total), v.disposed_total))

\* The call that shows C22 wrong: 0.2 cases on hand in the first category,
\* 0.5 new and 0.5 disposed in the second; the check compares
\* 0.2 + (0.5 - 0.5) with (0.2 + 0.5) - 0.5 and raises.
C22_SelfCheckRaised ==
    /\ Validated("validate_basic_metrics")
    /\ FloatEq(call[1].args.balance_rape, Fifth)
    /\ FloatEq(call[1].args.balance_pocso, 0)
    /\ FloatEq(call[1].args.new_rape, 0)
    /\ FloatEq(call[1].args.new_pocso, Half)
    /\ FloatEq(call[1].args.disposed_rape, 0)
    /\ FloatEq(call[1].args.disposed_pocso, Half)
    /\ ~call[1].out.ok
    /\ call[1].out.kind = "InvariantViolation"

\* C23: a partial record leaves the store only in the step in which a step 3
\* for its own key, whose insert committed, returns Success; no other step of
\* any call, for this or another key, removes a record.
C23_RemovedByCommitOnly ==
    [][\A k \in DOMAIN partial_data_store :
         k \notin DOMAIN partial_data_store' =>
            \E s \in Slots :
               /\ Step3ResumesCommitted(s)
               /\ KeyOfCall(s) = k
               /\ call'[s].result = "Success"]_vars

\* C23 witness: the partial record of a key is still in the store after a
\* step 3 for the key returned a failure and a deletion for the key returned.
C23_Witness ==
    \E s, t \in Slots :
        /\ call[s].pc = "done"
        /\ call[s].op = "insert_step3_additional_metrics"
        /\ call[s].result \in {"StepOrderViolation", "SubsetViolation"}
        /\ call[t].pc = "done"
        /\ call[t].op = "delete_monthly_data"
        /\ call[t].result \in {"Success", "NotFound"}
        /\ KeyOfCall(t) = KeyOfCall(s)
        /\ HasFlag(KeyOfCall(s), "step1_complete")

\* What a handler returns for a failure.
FailureResults == StepFailures \cup {"InvariantViolation", "NotFound"}

\* The handler of slot s runs in this step: it resumes after an await.
HandlerRuns(s) ==
    /\ call[s].pc \in {"get_court", "checked", "inserted", "deleted"}
    /\ call'[s] # call[s]

\* C24: a handler never raises to its caller: whenever it runs it either
\* stops at its next await or returns a value, and when the statement it
\* awaited raised (a storage failure, the unique-key violation of the insert,
\* a missing column) it returns a failure; so do a validator failure and a
\* step-order failure.
C24_FailuresReturned ==
    [][\A s \in Slots :
         HandlerRuns(s) =>
            /\ call'[s].pc \in {"check_existing", "insert", "delete", "done"}
            /\ call'[s].pc = "done" =>
                  call'[s].result \in FailureResults \cup {"Success", "Exists", "NoData"}
            /\ call[s].exc # "" =>
                  call'[s].pc = "done" /\ call'[s].result \in FailureResults]_vars

\* C24 witness: a step 3 whose insert was refused, its key being committed
\* already, has returned a failure, and a step 2 has returned the failure of
\* its validator.
C24_Witness ==
    \E s, t \in Slots :
        /\ call[s].pc = "done"
        /\ call[s].op = "insert_step3_additional_metrics"
        /\ call[s].result = "StorageFailure"
        /\ call[s].court_name = "FTSC Attingal"
        /\ KeyOfCall(s) \in DOMAIN court_monthly_data
        /\ call[t].pc = "done"
        /\ call[t].op = "insert_step2_age_breakdowns"
        /\ call[t].result = "SumMismatch"

\* C25: a step 1 that succeeds for a key whose partial record has
\* step2_complete leaves a record with the step-1 fields only, so neither
\* step2_complete nor any step-2 bucket or total is in it; and a step 3 that
\* reaches its step-order check while the record of its key has no
\* step2_complete returns StepOrderViolation.
C25_Step1ResetsWorkflow ==
    [][\A s \in Slots :
         /\ (/\ Step1PassedChecks(s)
             /\ call'[s] # call[s]
             /\ HasFlag(KeyOfCall(s), "step2_complete"))
               => /\ call'[s].result = "Success"
                  /\ ~HasFlag(KeyOfCall(s), "step2_complete")'
                  /\ HasFlag(KeyOfCall(s), "step1_complete")'
                  /\ \A f \in DOMAIN partial_data_store'[KeyOfCall(s)] :
                        /\ f \notin BucketFields
                        /\ f \notin {"total_pendency_rape", "total_pendency_pocso",
                                      "total_disposal_rape", "total_disposal_pocso"}
         /\ (/\ ResumesWithCourt(s)
             /\ call[s].op = "insert_step3_additional_metrics"
             /\ HasFlag(KeyOfCall(s), "step1_complete")
             /\ ~HasFlag(KeyOfCall(s), "step2_complete"))
               => FailsWith(s, "StepOrderViolation")]_vars

\* C25 witness: a step 2 and a step 1 have both returned Success for a key,
\* and the record of the key has step1_complete and no step2_complete: the
\* step 1 wrote after the step 2.
C25_Witness ==
    \E s, t \in Slots :
        /\ call[s].pc = "done"
        /\ call[s].op = "insert_step1_basic_metrics"
        /\ call[s].result = "Success"
        /\ call[t].pc = "done"
        /\ call[t].op = "insert_step2_age_breakdowns"
        /\ call[t].result = "Success"
        /\ KeyOfCall(t) = KeyOfCall(s)
        /\ HasFlag(KeyOfCall(s), "step1_complete")
        /\ ~HasFlag(KeyOfCall(s), "step2_complete")

\* C26: in every reachable state every partial record has step1_complete
\* and pending = balance + new - disposed in both categories, and every
\* partial record with step2_complete has its pendency buckets summing to its
\* pending and its disposal buckets summing to its disposed, in both
\* categories.
C26_PartialRecordsConsistent ==
    \A k \in DOMAIN partial_data_store :
        LET r == partial_data_store[k]
        IN  /\ HasFlag(k, "step1_complete")
            /\ r.pending_rape = r.balance_rape + r.new_rape - r.disposed_rape
            /\ r.pending_pocso = r.balance_pocso + r.new_pocso - r.disposed_pocso
            /\ HasFlag(k, "step2_complete") => SumsMatch(r, r)

\* C26 witness: the record of a key has step2_complete and one case pending
\* in the first category, in one of its buckets, while the response of an
\* earlier step 1 for the key, with no case pending, is still unread: step 1
\* ran again, and step 2 after it.
C26_Witness ==
    \E s \in Slots :
        /\ call[s].pc = "done"
        /\ call[s].op = "insert_step1_basic_metrics"
        /\ call[s].result = "Success"
        /\ call[s].payload.pending_rape = 0
        /\ HasFlag(KeyOfCall(s), "step2_complete")
        /\ partial_data_store[KeyOfCall(s)].pending_rape = 1
        /\ partial_data_store[KeyOfCall(s)].total_pendency_rape = 1

\* No handler is suspended at an await: every slot is free or holds a
\* response.
BetweenOperations == \A s \in Slots : call[s].pc \in {"idle", "done"}

\* C27: in every reachable state between operations, however the calls
\* before it interleaved at their awaits, no key has both a partial record in
\* the store and a committed row in the table.
C27_PartialAndCommittedDisjoint ==
    BetweenOperations =>
        (DOMAIN partial_data_store) \cap (DOMAIN court_monthly_data) = {}

\* The state that shows C27 wrong: every call has returned, a step 3 and a
\* step 1 with Success for the same key, and that key has a committed row
\* and a partial record.
C27_BothExist ==
    \E s, t \in Slots :
        /\ call[s].pc = "done"
        /\ call[s].op = "insert_step3_additional_metrics"
        /\ call[s].result = "Success"
        /\ call[t].pc = "done"
        /\ call[t].op = "insert_step1_basic_metrics"
        /\ call[t].result = "Success"
        /\ KeyOfCall(t) = KeyOfCall(s)
        /\ KeyOfCall(s) \in DOMAIN partial_data_store
        /\ KeyOfCall(s) \in DOMAIN court_monthly_data

\* The INSERT of the step 3 in slot s takes effect in this step.
Step3Commits(s) ==
    /\ call[s].pc = "insert"
    /\ call[s].op = "insert_step3_additional_metrics"
    /\ call'[s].pc = "inserted"
    /\ call'[s].exc = ""

\* C28: the partial record of a key is what the most recent successful step
\* 1 and the successful step 2 after it left.  Whenever the INSERT of a step
\* 3 commits a row while the key has a partial record, that record has
\* step2_complete (no step 1 succeeded since the step 2) and every field of
\* it is committed with the value it has.
C28_CommitsLatestSteps ==
    [][\A s \in Slots :
         (Step3Commits(s) /\ KeyOfCall(s) \in DOMAIN partial_data_store) =>
            /\ HasFlag(KeyOfCall(s), "step2_complete")
            /\ \A f \in DOMAIN partial_data_store[KeyOfCall(s)] :
                  call[s].complete_data[f] = partial_data_store[KeyOfCall(s)][f]]_vars

\* The state that shows C28 wrong: a step 1 has returned Success for a key,
\* its record without step2_complete is in the store, and the INSERT of a
\* step 3 for the key has since committed a row with another opening balance.
C28_StaleCommit ==
    \E s, t \in Slots :
        /\ call[s].pc = "inserted"
        /\ call[s].op = "insert_step3_additional_metrics"
        /\ call[s].exc = ""
        /\ call[t].pc = "done"
        /\ call[t].op = "insert_step1_basic_metrics"
        /\ call[t].result = "Success"
        /\ KeyOfCall(t) = KeyOfCall(s)
        /\ KeyOfCall(s) \in DOMAIN court_monthly_data
        /\ KeyOfCall(s) \in DOMAIN partial_data_store
        /\ ~HasFlag(KeyOfCall(s), "step2_complete")
        /\ court_monthly_data[KeyOfCall(s)][Len(court_monthly_data[KeyOfCall(s)])].balance_rape
              # partial_data_store[KeyOfCall(s)].balance_rape

\* C29: every key of the store, and every row of the table, has its month in
\* [1,12] and its year in [2020,2030], although only step 1 checks the
\* period; and a step 2 or step 3 called with a period out of range returns a
\* failure and changes neither the store nor the table.
C29_PeriodsInRange ==
    [][/\ \A k \in DOMAIN partial_data_store' :
            /\ InRange(k[2], k[3])
            /\ InRange(partial_data_store'[k].month, partial_data_store'[k].year)
       /\ \A k \in DOMAIN court_monthly_data' :
            /\ InRange(k[2], k[3])
            /\ \A i \in DOMAIN court_monthly_data'[k] :
                  InRange(court_monthly_data'[k][i].month, court_monthly_data'[k][i].year)
       /\ \A s \in Slots :
            (/\ Returns(s)
             /\ call'[s].op \in {"insert_step2_age_breakdowns",
                                  "insert_step3_additional_metrics"}
             /\ ~InRange(call'[s].month, call'[s].year))
               => /\ call'[s].result \in FailureResults
                  /\ UNCHANGED <<partial_data_store, court_monthly_data>>]_vars

\* C29 witness: a step 2 for an existing court and month 13 was refused for
\* want of a step 1, while the same court has a row committed for month 1.
C29_Witness ==
    \E s \in Slots :
        /\ call[s].pc = "done"
        /\ call[s].op = "insert_step2_age_breakdowns"
        /\ call[s].court_name = "FTSC Attingal"
        /\ call[s].month = 13
        /\ call[s].result = "StepOrderViolation"
        /\ <<KeyOfCall(s)[1], 1, call[s].year>> \in DOMAIN court_monthly_data

\* The dict d with the entries of every key but k removed.
Only(d, k) == [x \in (DOMAIN d) \cap {k} |-> d[x]]

\* Every key but k has the same partial record, or none, and the same rows,
\* or none, before and after the step.
OthersUnchanged(k) ==
    /\ Remove(partial_data_store', k) = Remove(partial_data_store, k)
    /\ Remove(court_monthly_data', k) = Remove(court_monthly_data, k)

\* What a handler reads of the store and the table for key k is the same
\* with every other key removed.
ReadsOwnKey(k) ==
    /\ Step1Done(partial_data_store, k) = Step1Done(Only(partial_data_store, k), k)
    /\ k \in DOMAIN partial_data_store
          => Step2Done(partial_data_store, k) = Step2Done(Only(partial_data_store, k), k)
    /\ check_existing_data(court_monthly_data, k[1], k[2], k[3])
          = check_existing_data(Only(court_monthly_data, k), k[1], k[2], k[3])
    /\ UniqueKeyViolation(court_monthly_data, k[1], k[2], k[3])
          = UniqueKeyViolation(Only(court_monthly_data, k), k[1], k[2], k[3])

\* The step of the call c, whose court is known or None, keeps to c's key.
KeepsToKey(c, court) ==
    IF court = None
    THEN UNCHANGED <<partial_data_store, court_monthly_data>>
    ELSE /\ OthersUnchanged(<<court.id, c.month, c.year>>)
         /\ ReadsOwnKey(<<court.id, c.month, c.year>>)

\* C30: every step of a call for key k, whatever it returns, leaves the
\* partial record and the rows of every other key as they were; a call whose
\* court is unknown changes no key; and what a handler reads of the store and
\* the table (the step-order flags, the existence of a row, the unique key)
\* is the same with every other key removed.
C30_KeysIndependent ==
    [][\A s \in Slots :
         call'[s] # call[s] =>
            IF call[s].pc = "idle"
            THEN KeepsToKey(call'[s], get_court_by_name(call'[s].court_name))
            ELSE KeepsToKey(call[s], get_court_by_name(call[s].court_name))]_vars

\* C30 witness: a step 3 for January has returned Success and its row is
\* committed, while February's partial record and March's row are as they
\* were at the start.
C30_Witness ==
    \E s \in Slots :
        /\ call[s].pc = "done"
        /\ call[s].op = "insert_step3_additional_metrics"
        /\ call[s].result = "Success"
        /\ KeyOfCall(s) \in DOMAIN court_monthly_data
        /\ KeyOfCall(s) \notin DOMAIN partial_data_store
        /\ partial_data_store = OtherStore
        /\ \A k \in DOMAIN OtherTable :
              k \in DOMAIN court_monthly_data /\ court_monthly_data[k] = OtherTable[k]

====
